---- MODULE Spec2Model ----
(***************************************************************************)
(* A model of the sync coordination layer of the beacon node:              *)
(*   - the Block Lookups Manager (sync/block_lookups/mod.rs),              *)
(*   - the RPC behaviour's response limiting (lighthouse_network rpc/mod.rs)*)
(* Each subsystem has its own specification (SpecLookups, SpecRpc); the    *)
(* variables of the other subsystem stay at their initial values.          *)
(***************************************************************************)
EXTENDS Integers, Sequences, FiniteSets, TLC

(***************************************************************************)
(* Bounds of the model.                                                    *)
(***************************************************************************)
NumPeers == 2
NumRoots == 3
MaxId == 3
MaxSingleLookups == 2
MaxParentLookups == 2
\* Events handled in one run: of a reliable environment, of a lossy one.
MaxEvents == 5
MaxLossyEvents == 3
\* RPC: peers, responses of one run, the last instant a request or response
\* may arrive at, the requests, responses and handler events of one run (of
\* one run under fairness), and the token bucket's capacity.
NumRpcPeers == 1
MaxResponses == 3
MaxClock == 1
MaxRpcEvents == 4
MaxFairEvents == 4
Capacity == 2
\* Outbound requests: peers, connections of one peer, requests of one run and
\* the requests, connection events and handler events of one run.
NumOutPeers == 2
MaxConns == 2
MaxOutRequests == 3
MaxOutEvents == 5
\* Sync Manager: the messages and signals of one run.
MaxSyncEvents == 4
\* Holders of the execution status handle that may call offline().
NumHolders == 2
Protocols == {"BlocksByRange", "Status"}
RpcPeers == 1..NumRpcPeers
OutPeers == 1..NumOutPeers

Peers == 1..NumPeers
\* Block roots.  The parent of root r is r - 1; root 0 is a block the chain
\* already knows (it is never looked up).
Roots == 1..NumRoots
ParentOf(r) == r - 1
None == 0

(***************************************************************************)
(* Program constants.                                                      *)
(***************************************************************************)
SINGLE_BLOCK_LOOKUP_MAX_ATTEMPTS == 3
SLOT_IMPORT_TOLERANCE == 32
\* Tolerance of a parent lookup (attempts and chain depth), scaled down so
\* that a chain of NumRoots blocks can exceed it.
PARENT_FAIL_TOLERANCE == 1
\* The capacity of the channel to the execution status listener.
STATUS_CHANNEL_CAPACITY == 1

VARIABLES
    \* ---- BlockLookups ----
    single_block_lookups,       \* Seq of [block_id, blob_id, req]
    parent_lookups,             \* Seq of ParentLookup
    processing_parent_lookups,  \* set of [chain_hash, hashes, used_peers]
    failed_chains,              \* set of roots
    next_id,                    \* the network context's request id counter
    pending_work,               \* work the Beacon Processor has not answered
    events_left,                \* events the run may still handle
    lossy                       \* may a send or a submission fail, a blob be missing

lookupVars == <<single_block_lookups, parent_lookups, processing_parent_lookups,
                failed_chains, next_id, pending_work, events_left, lossy>>

VARIABLES
    \* ---- RPC behaviour (lighthouse_network/src/rpc/mod.rs) ----
    events,                     \* Seq of behaviour actions waiting for the swarm
    active_inbound_requests,    \* the active-requests limiter: set of [peer, proto, id]
    response_tokens,            \* response_limiter_new: tokens per <<peer, protocol>>
    delayed_responses,          \* the DelayQueue: set of [rid, due]
    now,                        \* the clock, in ticks
    next_substream,             \* the id the next inbound request arrives under
    responses,                  \* history: every response given to send_response
    open_requests,              \* history: requests admitted and not yet completed
    outbound_request_limiter,   \* the self limiter: [on, tok, q], q a Seq of [peer, proto, id]
    connections,                \* the swarm: established connections per peer
    requests                    \* history: every request given to send_request

rpcVars == <<events, active_inbound_requests, response_tokens, delayed_responses, now,
             next_substream, responses, open_requests, outbound_request_limiter,
             connections, requests>>

VARIABLES
    \* ---- SyncManager (network/src/sync/manager.rs) ----
    running,                    \* the main loop has not returned
    sync_state,                 \* network_globals.sync_state
    peer_db,                    \* network_globals.peers: [connected, status] per peer
    execution_notifier,         \* "None" or "Waiting"
    execution_state,            \* the execution status handler's state
    subscriptions,              \* calls of network.subscribe_core_topics
    handled                     \* history: the last UnknownBlock(Hash) message handled

syncVars == <<running, sync_state, peer_db, execution_notifier, execution_state,
              subscriptions, handled>>

VARIABLES
    \* ---- ExecutionStatusHandler (network/src/sync/manager.rs) ----
    offline_pc,                 \* where each holder of the handle is in offline()
    sync_manager_tx,            \* messages queued for the execution status listener
    notified                    \* history: messages queued since the state was set Online

statusVars == <<offline_pc, sync_manager_tx, notified>>

vars == <<lookupVars, rpcVars, syncVars, statusVars>>

(***************************************************************************)
(* Sequence helpers.                                                       *)
(***************************************************************************)
Range(s) == {s[i] : i \in DOMAIN s}
RemoveAt(s, i) == [j \in 1..(Len(s) - 1) |-> IF j < i THEN s[j] ELSE s[j + 1]]
\* Index of the first element satisfying a test, 0 when there is none.
FirstIndex(s, Test(_)) ==
    IF \E i \in DOMAIN s : Test(s[i])
    THEN CHOOSE i \in DOMAIN s : Test(s[i]) /\ \A j \in 1..(i - 1) : ~Test(s[j])
    ELSE 0
\* F applied to a value computed once.
Bind(x, F(_)) == F(x)

Min(S) == CHOOSE x \in S : \A y \in S : x <= y
\* Iteration order of a set of peers.
RECURSIVE SetToSeq(_)
SetToSeq(S) == IF S = {} THEN <<>> ELSE <<Min(S)>> \o SetToSeq(S \ {Min(S)})

(***************************************************************************)
(* The environment's choices during one handler call.                      *)
(*   net    the network context accepts the request (send succeeds)        *)
(*   proc   the Beacon Processor channel accepts the work (try_send)       *)
(*   da     the availability checker's view: blobs "missing" or "complete"  *)
(*   pref   the peer a random choice among candidates falls on             *)
(***************************************************************************)
DaStatus == {"complete", "missing"}
Envs == [net : BOOLEAN, proc : BOOLEAN, da : DaStatus, pref : Peers]

(***************************************************************************)
(* SingleLookupRequestState: the bookkeeping of one download (block or     *)
(* blobs) of a lookup.                                                     *)
(***************************************************************************)
NewRequestState(peer) ==
    [state |-> "AwaitingDownload", peer |-> None, available_peers |-> {peer},
     used_peers |-> {}, failed_downloading |-> 0, failed_processing |-> 0]

register_failure_downloading(rs) ==
    [rs EXCEPT !.failed_downloading = @ + 1, !.state = "AwaitingDownload", !.peer = None]

register_failure_processing(rs) ==
    [rs EXCEPT !.failed_processing = @ + 1, !.state = "AwaitingDownload", !.peer = None]

failed_attempts(rs) == rs.failed_processing + rs.failed_downloading

add_peer(rs, peer) == [rs EXCEPT !.available_peers = @ \cup {peer}]

\* Err (err = TRUE) when the peer was the one being downloaded from.
check_peer_disconnected(rs, peer) ==
    LET rs1 == [rs EXCEPT !.available_peers = @ \ {peer}]
    IN  IF rs1.state = "Downloading" /\ rs1.peer = peer
        THEN [err |-> TRUE, rs |-> register_failure_downloading(rs1)]
        ELSE [err |-> FALSE, rs |-> rs1]

\* The peer the next request goes to: one not yet used when there is one.
get_peer(rs, pref) ==
    LET fresh == rs.available_peers \ rs.used_peers
        cands == IF fresh # {} THEN fresh ELSE rs.available_peers
    IN  IF pref \in cands THEN pref ELSE Min(cands)

\* tag: "Some" (a request to make, to .peer), "TooManyAttempts", "NoPeers".
request_state(rs, max_attempts, pref) ==
    IF failed_attempts(rs) >= max_attempts
    THEN [tag |-> "TooManyAttempts", rs |-> rs, peer |-> None,
          cannot_process |-> rs.failed_processing >= rs.failed_downloading]
    ELSE IF rs.available_peers # {}
    THEN LET p == get_peer(rs, pref)
         IN  [tag |-> "Some",
              rs |-> [rs EXCEPT !.state = "Downloading", !.peer = p,
                                !.used_peers = @ \cup {p}],
              peer |-> p, cannot_process |-> FALSE]
    ELSE [tag |-> "NoPeers", rs |-> rs, peer |-> None, cannot_process |-> FALSE]

\* data: "Good" (the requested object), "Bad" (another object), "None" (the
\* stream terminator).  tag: "Some" (verified), "None" (nothing to do), "Err".
verify_state(rs, data) ==
    CASE rs.state = "Downloading" /\ data = "Good" ->
            [tag |-> "Some", rs |-> [rs EXCEPT !.state = "Processing"]]
      [] rs.state = "Processing" /\ data = "None" ->
            [tag |-> "None", rs |-> rs]
      [] OTHER ->
            [tag |-> "Err", rs |-> register_failure_downloading(rs)]

(***************************************************************************)
(* SingleBlockLookup.                                                      *)
(***************************************************************************)
NewSingleBlockLookup(root, peer) ==
    [requested_block_root |-> root,
     block_request_state |-> NewRequestState(peer),
     blob_request_state |-> NewRequestState(peer),
     downloaded_block |-> FALSE]

add_peer_if_useful(l, root, peer) ==
    IF l.requested_block_root = root
    THEN [l EXCEPT !.block_request_state = add_peer(@, peer),
                   !.blob_request_state = add_peer(@, peer)]
    ELSE l

\* tag "None": the block is already held, nothing to request.
request_block(l, max_attempts, e) ==
    IF l.downloaded_block
    THEN [tag |-> "None", l |-> l, peer |-> None, cannot_process |-> FALSE]
    ELSE LET r == request_state(l.block_request_state, max_attempts, e.pref)
         IN  [tag |-> r.tag, l |-> [l EXCEPT !.block_request_state = r.rs],
              peer |-> r.peer, cannot_process |-> r.cannot_process]

\* tag "None": no blob is missing, nothing to request.
request_blobs(l, max_attempts, e) ==
    IF e.da # "missing"
    THEN [tag |-> "None", l |-> l, peer |-> None, cannot_process |-> FALSE]
    ELSE LET r == request_state(l.blob_request_state, max_attempts, e.pref)
         IN  [tag |-> r.tag, l |-> [l EXCEPT !.blob_request_state = r.rs],
              peer |-> r.peer, cannot_process |-> r.cannot_process]

StateOf(l, rt) == IF rt = "Block" THEN l.block_request_state ELSE l.blob_request_state

\* The peer whose data is being processed, None when there is none (Err).
processing_peer(l, rt) ==
    IF StateOf(l, rt).state = "Processing" THEN StateOf(l, rt).peer ELSE None

verify_block(l, data) ==
    LET r == verify_state(l.block_request_state, data)
    IN  [tag |-> r.tag, l |-> [l EXCEPT !.block_request_state = r.rs]]

verify_blob(l, data) ==
    LET r == verify_state(l.blob_request_state, data)
    IN  [tag |-> r.tag, l |-> [l EXCEPT !.blob_request_state = r.rs]]

\* The lookup keeps the block while the chain of its parents is resolved.
add_block(l) == [l EXCEPT !.downloaded_block = TRUE]

(***************************************************************************)
(* ParentLookup.                                                           *)
(***************************************************************************)
NewParentLookup(block_root, parent_root, peer) ==
    [chain_hash |-> block_root,
     downloaded_blocks |-> <<>>,
     current_parent_request |-> NewSingleBlockLookup(parent_root, peer),
     current_parent_request_id |-> None,
     current_parent_blob_request_id |-> None]

contains_block(pl, root) == \E i \in DOMAIN pl.downloaded_blocks : pl.downloaded_blocks[i] = root

pending_block_response(pl, id) == id # None /\ pl.current_parent_request_id = id
pending_blob_response(pl, id) == id # None /\ pl.current_parent_blob_request_id = id

pl_add_peer_if_useful(pl, root, peer) ==
    [pl EXCEPT !.current_parent_request = add_peer_if_useful(@, root, peer)]

pl_requests(pl, root) == pl.current_parent_request.requested_block_root = root

\* The processed block joins the chain; its parent becomes the block to fetch.
add_block_wrapper(pl) ==
    LET current_root == pl.current_parent_request.requested_block_root
    IN  [pl EXCEPT !.downloaded_blocks = Append(@, current_root),
                   !.current_parent_request =
                        [@ EXCEPT !.requested_block_root = ParentOf(current_root),
                                  !.downloaded_block = FALSE,
                                  !.block_request_state =
                                        [@ EXCEPT !.state = "AwaitingDownload", !.peer = None],
                                  !.blob_request_state =
                                        [@ EXCEPT !.state = "AwaitingDownload", !.peer = None]],
                   !.current_parent_request_id = None,
                   !.current_parent_blob_request_id = None]

block_download_failed(pl) ==
    [pl EXCEPT !.current_parent_request.block_request_state = register_failure_downloading(@),
               !.current_parent_request_id = None]

blob_download_failed(pl) ==
    [pl EXCEPT !.current_parent_request.blob_request_state = register_failure_downloading(@),
               !.current_parent_blob_request_id = None]

block_processing_failed(pl) ==
    [pl EXCEPT !.current_parent_request.block_request_state = register_failure_processing(@),
               !.current_parent_request.downloaded_block = FALSE,
               !.current_parent_request_id = None]

blob_processing_failed(pl) ==
    [pl EXCEPT !.current_parent_request.blob_request_state = register_failure_processing(@),
               !.current_parent_blob_request_id = None]

\* Whether the peer is one this lookup knows for the given download.
peer_source(pl, rt, peer) ==
    LET rs == StateOf(pl.current_parent_request, rt)
    IN  peer \in (rs.available_peers \cup rs.used_peers)

used_peers(pl, rt) == StateOf(pl.current_parent_request, rt).used_peers

\* (chain_hash, blocks, hashes, request): the chain as the lookup holds it.
parts_for_processing(pl) ==
    [chain_hash |-> pl.chain_hash, blocks |-> pl.downloaded_blocks,
     hashes |-> pl.downloaded_blocks, request |-> pl.current_parent_request]


(***************************************************************************)
(* BlockLookups (block_lookups/mod.rs).  The handlers are operators on a   *)
(* record S of the manager's state plus what the handler has sent so far:  *)
(*   sbl  single_block_lookups        pl   parent_lookups                  *)
(*   ppl  processing_parent_lookups   fc   failed_chains                   *)
(*   nid  the next request id         req  requests put on the wire        *)
(*   rep  peers reported              work work sent to the Beacon Processor*)
(***************************************************************************)
SendReq(S, kind, peer, root) ==
    [S EXCEPT !.req = Append(@, [kind |-> kind, peer |-> peer, root |-> root, id |-> S.nid]),
              !.nid = @ + 1]

report_peer(S, peer, action) ==
    [S EXCEPT !.rep = Append(@, [peer |-> peer, action |-> action])]

RECURSIVE report_peers(_, _, _)
report_peers(S, peers, action) ==
    IF peers = <<>> THEN S
    ELSE report_peers(report_peer(S, Head(peers), action), Tail(peers), action)

SingleBlock(id) == [t |-> "SingleBlock", id |-> id, chain_hash |-> None]
ParentLookup(chain_hash) == [t |-> "ParentLookup", id |-> None, chain_hash |-> chain_hash]
ChainSegment(chain_hash) == [t |-> "ChainSegment", id |-> None, chain_hash |-> chain_hash]

Submit(S, kind, root, ptype, blocks) ==
    [S EXCEPT !.work = Append(@, [kind |-> kind, root |-> root, ptype |-> ptype,
                                  blocks |-> blocks])]

\* ok = FALSE is Err(()): the processor is absent or its queue refused.
send_block_for_processing(S, root, ptype, e) ==
    IF e.proc
    THEN [ok |-> TRUE, S |-> Submit(S, "rpc_beacon_block", root, ptype, <<>>)]
    ELSE [ok |-> FALSE, S |-> S]

send_blobs_for_processing(S, root, ptype, e) ==
    IF e.proc
    THEN [ok |-> TRUE, S |-> Submit(S, "rpc_blobs", root, ptype, <<>>)]
    ELSE [ok |-> FALSE, S |-> S]

\* Result: the state, the lookup, the value left in *request_id_ref, and
\* whether the lookup is to be removed.
retry_request_after_failure(S, id_ref, l, rt, e) ==
    LET r == IF rt = "Block"
             THEN request_block(l, SINGLE_BLOCK_LOOKUP_MAX_ATTEMPTS, e)
             ELSE request_blobs(l, SINGLE_BLOCK_LOOKUP_MAX_ATTEMPTS, e)
        kind == IF rt = "Block" THEN "block" ELSE "blobs"
    IN  CASE r.tag = "Some" /\ e.net ->
                [S |-> SendReq(S, kind, r.peer, l.requested_block_root),
                 l |-> r.l, id |-> S.nid, remove |-> FALSE]
          [] r.tag = "Some" /\ ~e.net ->
                [S |-> S, l |-> r.l, id |-> id_ref, remove |-> TRUE]
          [] r.tag = "None" ->
                [S |-> S, l |-> r.l, id |-> id_ref, remove |-> FALSE]
          [] OTHER ->
                [S |-> S, l |-> r.l, id |-> id_ref, remove |-> TRUE]

\* A variant that retries without reporting the peer.
handle_block_lookup_verify_error_silent(S, id_ref, l, rt, peer, e) ==
    retry_request_after_failure(S, id_ref, l, rt, e)

handle_block_lookup_verify_error(S, id_ref, l, rt, peer, e) ==
    retry_request_after_failure(report_peer(S, peer, "LowToleranceError"), id_ref, l, rt, e)

\* ---- ParentLookup::request_parent_block / request_parent_blobs ----
pl_request_parent_block(S, pl, e) ==
    IF Len(pl.downloaded_blocks) > PARENT_FAIL_TOLERANCE
    THEN [S |-> S, pl |-> pl, err |-> "ChainTooLong", cannot_process |-> FALSE]
    ELSE Bind(request_block(pl.current_parent_request, PARENT_FAIL_TOLERANCE, e), LAMBDA r :
         Bind([pl EXCEPT !.current_parent_request = r.l], LAMBDA pl1 :
             CASE r.tag = "Some" /\ e.net ->
                    [S |-> SendReq(S, "parent_block", r.peer,
                                   pl.current_parent_request.requested_block_root),
                     pl |-> [pl1 EXCEPT !.current_parent_request_id = S.nid],
                     err |-> "Ok", cannot_process |-> FALSE]
               [] r.tag = "Some" /\ ~e.net ->
                    [S |-> S, pl |-> [pl1 EXCEPT !.current_parent_request_id = None],
                     err |-> "SendFailed", cannot_process |-> FALSE]
               [] r.tag = "None" ->
                    [S |-> S, pl |-> pl1, err |-> "Ok", cannot_process |-> FALSE]
               [] OTHER ->
                    [S |-> S, pl |-> pl1, err |-> r.tag, cannot_process |-> r.cannot_process]))

pl_request_parent_blobs(S, pl, e) ==
    Bind(request_blobs(pl.current_parent_request, PARENT_FAIL_TOLERANCE, e), LAMBDA r :
    Bind([pl EXCEPT !.current_parent_request = r.l], LAMBDA pl1 :
        CASE r.tag = "Some" /\ e.net ->
               [S |-> SendReq(S, "parent_blobs", r.peer,
                              pl.current_parent_request.requested_block_root),
                pl |-> [pl1 EXCEPT !.current_parent_blob_request_id = S.nid],
                err |-> "Ok", cannot_process |-> FALSE]
          [] r.tag = "Some" /\ ~e.net ->
               [S |-> S, pl |-> [pl1 EXCEPT !.current_parent_blob_request_id = None],
                err |-> "SendFailed", cannot_process |-> FALSE]
          [] r.tag = "None" ->
               [S |-> S, pl |-> pl1, err |-> "Ok", cannot_process |-> FALSE]
          [] OTHER ->
               [S |-> S, pl |-> pl1, err |-> r.tag, cannot_process |-> r.cannot_process]))

\* A variant that puts a lookup whose chain is too long back into
\* parent_lookups instead of failing the chain.
handle_response_requeue(S, pl, err, cannot_process, rt) ==
    CASE err \in {"Ok", "ChainTooLong"} ->
            [S EXCEPT !.pl = Append(@, pl)]
      [] err = "TooManyAttempts" ->
            report_peers(IF cannot_process
                         THEN [S EXCEPT !.fc = @ \cup {pl.chain_hash}]
                         ELSE S,
                         SetToSeq(used_peers(pl, rt)), "LowToleranceError")
      [] OTHER -> S

handle_response(S, pl, err, cannot_process, rt) ==
    CASE err = "Ok" ->
            [S EXCEPT !.pl = Append(@, pl)]
      [] err = "ChainTooLong" ->
            report_peers([S EXCEPT !.fc = @ \cup {pl.chain_hash}],
                         SetToSeq(used_peers(pl, rt)), "LowToleranceError")
      [] err = "TooManyAttempts" ->
            report_peers(IF cannot_process
                         THEN [S EXCEPT !.fc = @ \cup {pl.chain_hash}]
                         ELSE S,
                         SetToSeq(used_peers(pl, rt)), "LowToleranceError")
      [] OTHER -> S   \* SendFailed, NoPeers: the request is dropped

request_parent_block(S, pl, e) ==
    Bind(pl_request_parent_block(S, pl, e), LAMBDA r :
        handle_response(r.S, r.pl, r.err, r.cannot_process, "Block"))

request_parent_blob(S, pl, e) ==
    Bind(pl_request_parent_blobs(S, pl, e), LAMBDA r :
        handle_response(r.S, r.pl, r.err, r.cannot_process, "Blob"))

request_parent_block_and_blobs(S, pl, e) ==
    Bind(pl_request_parent_block(S, pl, e), LAMBDA b :
        IF b.err = "Ok"
        THEN Bind(pl_request_parent_blobs(b.S, b.pl, e), LAMBDA c :
                 handle_response(c.S, c.pl, c.err, c.cannot_process, "Blob"))
        ELSE handle_response(b.S, b.pl, b.err, b.cannot_process, "Block"))

\* ---- Lookup requests ----
\* cached: the caller already holds the block (search_current_unknown_parent).
search_block_with(S, cached, hash, peer, e) ==
    LET i1 == FirstIndex(S.sbl, LAMBDA x : x.req.requested_block_root = hash)
        i2 == FirstIndex(S.pl, LAMBDA x : pl_requests(x, hash) \/ contains_block(x, hash))
    IN  IF i1 # 0
        THEN [S EXCEPT !.sbl[i1].req = add_peer_if_useful(@, hash, peer)]
        ELSE IF i2 # 0
        THEN [S EXCEPT !.pl[i2] = pl_add_peer_if_useful(@, hash, peer)]
        ELSE IF \E x \in S.ppl : \E i \in DOMAIN x.hashes : x.hashes[i] = hash
        THEN S
        ELSE LET l0 == NewSingleBlockLookup(hash, peer)
                 l1 == IF cached THEN add_block(l0) ELSE l0
                 rb == request_block(l1, SINGLE_BLOCK_LOOKUP_MAX_ATTEMPTS, e)
                 bsent == rb.tag = "Some" /\ e.net
                 S1 == IF bsent THEN SendReq(S, "block", rb.peer, hash) ELSE S
                 rl == request_blobs(rb.l, SINGLE_BLOCK_LOOKUP_MAX_ATTEMPTS, e)
                 lsent == rl.tag = "Some" /\ e.net
                 S2 == IF lsent THEN SendReq(S1, "blobs", rl.peer, hash) ELSE S1
             IN  [S2 EXCEPT !.sbl = Append(@, [block_id |-> IF bsent THEN S.nid ELSE None,
                                               blob_id |-> IF lsent THEN S1.nid ELSE None,
                                               req |-> rl.l])]

\* A variant that starts a lookup without looking at the lookups it has.
search_block_blind(S, hash, peer, e) ==
    [S EXCEPT !.sbl = Append(@, [block_id |-> None, blob_id |-> None,
                                 req |-> NewSingleBlockLookup(hash, peer)])]

search_block(S, hash, peer, e) == search_block_with(S, FALSE, hash, peer, e)

\* A variant that consults the failed chains for the parent only.
search_parent_parent_only(S, block_root, parent_root, peer, e) ==
    IF parent_root \in S.fc THEN S
    ELSE request_parent_block_and_blobs(
             S, NewParentLookup(block_root, parent_root, peer), e)

search_parent(S, block_root, parent_root, peer, e) ==
    LET i == FirstIndex(S.pl, LAMBDA x : contains_block(x, block_root)
                                          \/ pl_requests(x, block_root))
    IN  IF parent_root \in S.fc \/ block_root \in S.fc
        THEN S
        ELSE IF i # 0
        THEN IF contains_block(S.pl[i], block_root)
             THEN S
             ELSE [S EXCEPT !.pl[i] = pl_add_peer_if_useful(@, block_root, peer)]
        ELSE IF \E x \in S.ppl : \E j \in DOMAIN x.hashes :
                    x.hashes[j] = block_root \/ x.hashes[j] = parent_root
        THEN S
        ELSE request_parent_block_and_blobs(
                 S, NewParentLookup(block_root, parent_root, peer), e)


\* ---- Lookup responses ----
\* Index of the single lookup that holds target_id for this response type, 0
\* when no lookup does.
\* A variant that takes the first lookup with a request of the type in
\* flight, whatever its id.
find_single_lookup_request_any(S, target_id, rt) ==
    FirstIndex(S.sbl, LAMBDA x : IF rt = "Block" THEN x.block_id # None
                                                ELSE x.blob_id # None)

find_single_lookup_request(S, target_id, rt) ==
    FirstIndex(S.sbl, LAMBDA x : IF rt = "Block" THEN x.block_id = target_id
                                                ELSE x.blob_id = target_id)

\* A variant that never finds a parent lookup started by the block.
triggered_parent_request_never(S, l) == FALSE

triggered_parent_request(S, l) ==
    \E i \in DOMAIN S.pl : S.pl[i].chain_hash = l.requested_block_root

\* A variant that keeps the lookup when the processor refuses the block.
single_block_lookup_response_keeping(S, id, peer, block, e) ==
    LET idx == find_single_lookup_request(S, id, "Block")
    IN  IF idx = 0 THEN S
        ELSE
        LET ent == S.sbl[idx]
            v == verify_block(ent.req, block)
            retain(T) == [T EXCEPT !.sbl = SelectSeq(@, LAMBDA x : x.block_id # id)]
        IN  CASE v.tag = "Some" /\ triggered_parent_request(S, ent.req) ->
                    [S EXCEPT !.sbl[idx].req = add_block(v.l)]
              [] v.tag = "Some" /\ ~triggered_parent_request(S, ent.req) ->
                    send_block_for_processing(
                        [S EXCEPT !.sbl[idx].req = v.l],
                        ent.req.requested_block_root, SingleBlock(id), e).S
              [] v.tag = "None" ->
                    [S EXCEPT !.sbl[idx].req = v.l]
              [] OTHER ->
                    LET r == handle_block_lookup_verify_error(
                                 S, ent.block_id, v.l, "Block", peer, e)
                        T == [r.S EXCEPT !.sbl[idx] =
                                 [block_id |-> r.id, blob_id |-> ent.blob_id, req |-> r.l]]
                    IN  IF r.remove THEN retain(T) ELSE T

single_block_lookup_response(S, id, peer, block, e) ==
    LET idx == find_single_lookup_request(S, id, "Block")
    IN  IF idx = 0 THEN S
        ELSE
        LET ent == S.sbl[idx]
            v == verify_block(ent.req, block)
            retain(T) == [T EXCEPT !.sbl = SelectSeq(@, LAMBDA x : x.block_id # id)]
        IN  CASE v.tag = "Some" /\ triggered_parent_request(S, ent.req) ->
                    [S EXCEPT !.sbl[idx].req = add_block(v.l)]
              [] v.tag = "Some" /\ ~triggered_parent_request(S, ent.req) ->
                    LET r == send_block_for_processing(
                                 [S EXCEPT !.sbl[idx].req = v.l],
                                 ent.req.requested_block_root, SingleBlock(id), e)
                    IN  IF r.ok THEN r.S ELSE retain(r.S)
              [] v.tag = "None" ->
                    [S EXCEPT !.sbl[idx].req = v.l]
              [] OTHER ->
                    LET r == handle_block_lookup_verify_error(
                                 S, ent.block_id, v.l, "Block", peer, e)
                        T == [r.S EXCEPT !.sbl[idx] =
                                 [block_id |-> r.id, blob_id |-> ent.blob_id, req |-> r.l]]
                    IN  IF r.remove THEN retain(T) ELSE T

single_blob_lookup_response(S, id, peer, blob, e) ==
    LET idx == find_single_lookup_request(S, id, "Blob")
    IN  IF idx = 0 THEN S
        ELSE
        LET ent == S.sbl[idx]
            v == verify_blob(ent.req, blob)
            retain(T) == [T EXCEPT !.sbl = SelectSeq(@, LAMBDA x : x.blob_id # id)]
        IN  CASE v.tag = "Some" /\ triggered_parent_request(S, ent.req) ->
                    [S EXCEPT !.sbl[idx].req = v.l]
              [] v.tag = "Some" /\ ~triggered_parent_request(S, ent.req) ->
                    LET r == send_blobs_for_processing(
                                 [S EXCEPT !.sbl[idx].req = v.l],
                                 ent.req.requested_block_root, SingleBlock(id), e)
                    IN  IF r.ok THEN r.S ELSE retain(r.S)
              [] v.tag = "None" ->
                    [S EXCEPT !.sbl[idx].req = v.l]
              [] OTHER ->
                    LET r == handle_block_lookup_verify_error(
                                 S, ent.blob_id, v.l, "Blob", peer, e)
                        T == [r.S EXCEPT !.sbl[idx] =
                                 [block_id |-> ent.block_id, blob_id |-> r.id, req |-> r.l]]
                    IN  IF r.remove THEN retain(T) ELSE T

\* ParentLookup::verify_block / verify_blob: the request's own verification,
\* then the failed-chains check on the parent of what was returned.
pl_verify(S, pl, rt, data) ==
    LET v == IF rt = "Block" THEN verify_block(pl.current_parent_request, data)
                             ELSE verify_blob(pl.current_parent_request, data)
        root == pl.current_parent_request.requested_block_root
    IN  IF v.tag = "Some" /\ ParentOf(root) \in S.fc
        THEN [tag |-> "PreviousFailure",
              pl |-> IF rt = "Block"
                     THEN block_download_failed([pl EXCEPT !.current_parent_request = v.l])
                     ELSE blob_download_failed([pl EXCEPT !.current_parent_request = v.l])]
        ELSE [tag |-> v.tag, pl |-> [pl EXCEPT !.current_parent_request = v.l]]

\* What follows a verified block or blob list of a parent lookup: the
\* availability check decides between processing and searching on.
parent_verified(S, pl, peer, e) ==
    LET root == pl.current_parent_request.requested_block_root
    IN  IF e.da = "complete"
        THEN LET r == send_block_for_processing(S, root, ParentLookup(pl.chain_hash), e)
             IN  IF r.ok THEN [r.S EXCEPT !.pl = Append(@, pl)] ELSE r.S
        ELSE IF peer_source(pl, "Block", peer)
             THEN LET T == search_block(S, root, peer, e)
                  IN  [T EXCEPT !.pl = Append(@, pl)]
             ELSE S

\* A variant that treats a parent of a failed chain as any other
\* verification error.
parent_lookup_response_lenient(S, id, peer, block, e) ==
    Bind(FirstIndex(S.pl, LAMBDA x : pending_block_response(x, id)), LAMBDA pos :
        IF pos = 0 THEN S
        ELSE Bind(pl_verify(S, S.pl[pos], "Block", block), LAMBDA v :
                 IF v.tag \in {"Some", "None"} THEN S
                 ELSE request_parent_block(
                          report_peer([S EXCEPT !.pl = RemoveAt(@, pos)],
                                      peer, "LowToleranceError"), v.pl, e)))

parent_lookup_response(S, id, peer, block, e) ==
    LET pos == FirstIndex(S.pl, LAMBDA x : pending_block_response(x, id))
    IN  IF pos = 0 THEN S
        ELSE
        LET S1 == [S EXCEPT !.pl = RemoveAt(@, pos)]
            v == pl_verify(S, S.pl[pos], "Block", block)
        IN  CASE v.tag = "Some" ->
                    parent_verified(S1, [v.pl EXCEPT !.current_parent_request = add_block(@)],
                                    peer, e)
              [] v.tag = "None" ->
                    [S1 EXCEPT !.pl = Append(@, v.pl)]
              [] v.tag = "PreviousFailure" ->
                    report_peer([S1 EXCEPT !.fc = @ \cup {v.pl.chain_hash}],
                                peer, "MidToleranceError")
              [] OTHER ->
                    request_parent_block(report_peer(S1, peer, "LowToleranceError"), v.pl, e)

parent_lookup_blob_response(S, id, peer, blob, e) ==
    LET pos == FirstIndex(S.pl, LAMBDA x : pending_blob_response(x, id))
    IN  IF pos = 0 THEN S
        ELSE
        LET S1 == [S EXCEPT !.pl = RemoveAt(@, pos)]
            v == pl_verify(S, S.pl[pos], "Blob", blob)
        IN  CASE v.tag = "Some" ->
                    parent_verified(S1, v.pl, peer, e)
              [] v.tag = "None" ->
                    [S1 EXCEPT !.pl = Append(@, v.pl)]
              [] v.tag = "PreviousFailure" ->
                    report_peer([S1 EXCEPT !.fc = @ \cup {v.pl.chain_hash}],
                                peer, "MidToleranceError")
              [] OTHER ->
                    request_parent_blob(report_peer(S1, peer, "LowToleranceError"), v.pl, e)

\* ---- Error responses ----
\* One pass of retain_mut over single_block_lookups[i..]; acc holds the kept
\* entries.  Failed(ent, rt) says whether the entry's request of that type
\* failed, Fail(l, rt) registers the failure on the lookup.
retry_if(failed, S, id, l, failed_l, rt, e) ==
    IF id # None /\ failed
    THEN retry_request_after_failure(S, id, failed_l, rt, e)
    ELSE [S |-> S, l |-> l, id |-> id, remove |-> FALSE]

\* The entry as the closure leaves it, appended to acc unless it is removed.
retained(acc, b, c) ==
    IF ~b.remove /\ ~c.remove
    THEN Append(acc, [block_id |-> b.id, blob_id |-> c.id, req |-> c.l])
    ELSE acc

\* The closure applied to one entry: the block request, then the blob request.
retain_step(S, ent, acc, Failed(_, _), Fail(_, _), blob_retry_type, e) ==
    Bind(retry_if(Failed(ent, "Block"), S, ent.block_id, ent.req,
                  Fail(ent.req, "Block"), "Block", e), LAMBDA b :
    Bind(retry_if(Failed([ent EXCEPT !.req = b.l], "Blob"), b.S, ent.blob_id, b.l,
                  Fail(b.l, "Blob"), blob_retry_type, e), LAMBDA c :
        [S |-> c.S, acc |-> retained(acc, b, c)]))

RECURSIVE retain_failed(_, _, _, _, _, _, _)
retain_failed(S, i, acc, Failed(_, _), Fail(_, _), blob_retry_type, e) ==
    IF i > Len(S.sbl) THEN [S EXCEPT !.sbl = acc]
    ELSE Bind(retain_step(S, S.sbl[i], acc, Failed, Fail, blob_retry_type, e), LAMBDA step :
             retain_failed([step.S EXCEPT !.sbl = S.sbl], i + 1, step.acc,
                           Failed, Fail, blob_retry_type, e))

\* check_peer_disconnected on a lookup's request state of one type.
disconnect_check(l, rt, peer) ==
    IF rt = "Block"
    THEN LET c == check_peer_disconnected(l.block_request_state, peer)
         IN  [err |-> c.err, l |-> [l EXCEPT !.block_request_state = c.rs]]
    ELSE LET c == check_peer_disconnected(l.blob_request_state, peer)
         IN  [err |-> c.err, l |-> [l EXCEPT !.blob_request_state = c.rs]]

\* The test of the parent loop: the block check, then (only if it passed)
\* the blob check, each applied to the lookup.
pl_disconnect_check(pl, peer) ==
    LET b == disconnect_check(pl.current_parent_request, "Block", peer)
        c == disconnect_check(b.l, "Blob", peer)
    IN  IF b.err THEN [err |-> TRUE, pl |-> [pl EXCEPT !.current_parent_request = b.l]]
        ELSE [err |-> c.err, pl |-> [pl EXCEPT !.current_parent_request = c.l]]

RECURSIVE disconnect_parents(_, _, _)
disconnect_parents(S, peer, e) ==
    LET pos == FirstIndex(S.pl, LAMBDA x : pl_disconnect_check(x, peer).err)
        last == IF pos = 0 THEN Len(S.pl) ELSE pos
        visited == [j \in DOMAIN S.pl |->
                        IF j <= last THEN pl_disconnect_check(S.pl[j], peer).pl ELSE S.pl[j]]
    IN  IF pos = 0 THEN [S EXCEPT !.pl = visited]
        ELSE disconnect_parents(
                 request_parent_block_and_blobs([S EXCEPT !.pl = RemoveAt(visited, pos)],
                                                visited[pos], e),
                 peer, e)

\* A variant that checks the parent lookups only.
peer_disconnected_parents_only(S, peer, e) == disconnect_parents(S, peer, e)

peer_disconnected(S, peer, e) ==
    LET Failed(ent, rt) == disconnect_check(ent.req, rt, peer).err
        Fail(l, rt) == disconnect_check(l, rt, peer).l
        \* the check also runs, and drops the peer, when it does not fail
        checked == [S EXCEPT !.sbl = [j \in DOMAIN @ |->
                      LET ent == @[j]
                          l1 == IF ent.block_id # None
                                   /\ ~disconnect_check(ent.req, "Block", peer).err
                                THEN disconnect_check(ent.req, "Block", peer).l ELSE ent.req
                          l2 == IF ent.blob_id # None
                                   /\ ~disconnect_check(l1, "Blob", peer).err
                                THEN disconnect_check(l1, "Blob", peer).l ELSE l1
                      IN  [ent EXCEPT !.req = l2]]]
    IN  disconnect_parents(retain_failed(checked, 1, <<>>, Failed, Fail, "Blob", e), peer, e)

parent_lookup_failed(S, id, peer, e) ==
    LET pos1 == FirstIndex(S.pl, LAMBDA x : pending_block_response(x, id))
    IN  IF pos1 = 0 THEN S
        ELSE
        LET S1 == request_parent_block([S EXCEPT !.pl = RemoveAt(@, pos1)],
                                       block_download_failed(S.pl[pos1]), e)
            pos2 == FirstIndex(S1.pl, LAMBDA x : pending_blob_response(x, id))
        IN  IF pos2 = 0 THEN S1
            ELSE request_parent_blob([S1 EXCEPT !.pl = RemoveAt(@, pos2)],
                                     blob_download_failed(S1.pl[pos2]), e)

\* A variant that retries without counting the failed attempt.
single_block_lookup_failed_uncounted(S, id, peer, e) ==
    LET Failed(ent, rt) == IF rt = "Block" THEN ent.block_id = id ELSE ent.blob_id = id
        Fail(l, rt) == IF rt = "Block"
                       THEN [l EXCEPT !.block_request_state.state = "AwaitingDownload"]
                       ELSE [l EXCEPT !.blob_request_state.state = "AwaitingDownload"]
    IN  retain_failed(S, 1, <<>>, Failed, Fail, "Block", e)

\* A failed blob request is retried as ResponseType::Block (mod.rs line 808).
single_block_lookup_failed(S, id, peer, e) ==
    LET Failed(ent, rt) == IF rt = "Block" THEN ent.block_id = id ELSE ent.blob_id = id
        Fail(l, rt) == IF rt = "Block"
                       THEN [l EXCEPT !.block_request_state = register_failure_downloading(@)]
                       ELSE [l EXCEPT !.blob_request_state = register_failure_downloading(@)]
    IN  retain_failed(S, 1, <<>>, Failed, Fail, "Block", e)


\* ---- Processing responses ----
BlockResults ==
    {"Imported", "MissingComponents", "Ignored", "BlockIsAlreadyKnown",
     "BeaconChainError", "ParentUnknown", "ExecutionOffline", "Other"}

\* The id a processing result is matched against: block_id.or(blob_id).
processed_id(ent) == IF ent.block_id # None THEN ent.block_id ELSE ent.blob_id

\* A variant that treats every result as the peer's fault.
single_block_processed_penalizing(S, id, result, rt, e) ==
    Bind(FirstIndex(S.sbl, LAMBDA x : processed_id(x) = id), LAMBDA index :
        IF index = 0 THEN S
        ELSE report_peer([S EXCEPT !.sbl = RemoveAt(@, index)],
                         processing_peer(S.sbl[index].req, rt), "MidToleranceError"))

single_block_processed(S, id, result, rt, e) ==
    LET index == FirstIndex(S.sbl, LAMBDA x : processed_id(x) = id)
    IN  IF index = 0 THEN S
        ELSE
        LET ent == S.sbl[index]
            root == ent.req.requested_block_root
            peer == processing_peer(ent.req, rt)
        IN  IF peer = None THEN S
            ELSE
            CASE result = "MissingComponents" ->
                    search_block(S, root, peer, e)
              [] result = "ParentUnknown" ->
                    search_parent(S, root, ParentOf(root), peer, e)
              [] result = "Other" ->
                    LET r == retry_request_after_failure(
                                 report_peer(S, peer, "MidToleranceError"),
                                 id, ent.req, rt, e)
                        T == [r.S EXCEPT !.sbl[index] =
                                 IF ent.block_id # None
                                 THEN [block_id |-> r.id, blob_id |-> ent.blob_id, req |-> r.l]
                                 ELSE [block_id |-> None, blob_id |-> r.id, req |-> r.l]]
                    IN  IF r.remove THEN [T EXCEPT !.sbl = RemoveAt(@, index)] ELSE T
              [] OTHER ->
                    \* Imported, Ignored, BlockIsAlreadyKnown, BeaconChainError,
                    \* execution layer offline: the lookup is removed
                    [S EXCEPT !.sbl = RemoveAt(@, index)]

\* A variant that forgets the chain once its segment is submitted.
insert_processing_forgotten(S, parts) == S

insert_processing(S, parts) ==
    [S EXCEPT !.ppl = {x \in @ : x.chain_hash # parts.chain_hash}
                      \cup {[chain_hash |-> parts.chain_hash, hashes |-> parts.hashes,
                             block_used |-> parts.request.block_request_state.used_peers,
                             blob_used |-> parts.request.blob_request_state.used_peers]}]

parent_block_processed(S, chain_hash, result, rt, e) ==
    LET index == FirstIndex(S.pl, LAMBDA x : x.chain_hash = chain_hash)
    IN  IF index = 0 THEN S
        ELSE
        LET pl == S.pl[index]
            S1 == [S EXCEPT !.pl = RemoveAt(@, index)]
            peer == processing_peer(pl.current_parent_request, rt)
        IN  IF peer = None THEN S1
            ELSE
            CASE result = "MissingComponents" ->
                    search_block(S1, pl.current_parent_request.requested_block_root, peer, e)
              [] result = "ParentUnknown" ->
                    request_parent_block_and_blobs(S1, add_block_wrapper(pl), e)
              [] result \in {"Imported", "BlockIsAlreadyKnown"} ->
                    IF e.proc
                    THEN LET parts == parts_for_processing(pl)
                         IN  insert_processing(
                                 Submit(S1, "chain_segment", parts.chain_hash,
                                        ChainSegment(parts.chain_hash), parts.blocks),
                                 parts)
                    ELSE S1
              [] result = "ExecutionOffline" -> S1
              [] result = "Ignored" -> S1
              [] OTHER ->
                    LET S2 == report_peer(S1, peer, "MidToleranceError")
                    IN  IF rt = "Block"
                        THEN request_parent_block(S2, block_processing_failed(pl), e)
                        ELSE request_parent_blob(S2, blob_processing_failed(pl), e)

BatchResults == {"Success", "FaultyFailure", "NonFaultyFailure"}

\* A variant that holds the peers responsible for every failure.
parent_chain_processed_strict(S, chain_hash, result, e) ==
    IF ~\E x \in S.ppl : x.chain_hash = chain_hash THEN S
    ELSE Bind(CHOOSE x \in S.ppl : x.chain_hash = chain_hash, LAMBDA request :
            IF result = "Success" THEN [S EXCEPT !.ppl = @ \ {request}]
            ELSE report_peers([S EXCEPT !.ppl = @ \ {request}, !.fc = @ \cup {chain_hash}],
                              SetToSeq(request.block_used \cup request.blob_used),
                              "Penalty"))

\* A variant that has nothing to do once the chain is imported.
parent_chain_processed_idle(S, chain_hash, result, e) ==
    IF ~\E x \in S.ppl : x.chain_hash = chain_hash THEN S
    ELSE Bind(CHOOSE x \in S.ppl : x.chain_hash = chain_hash, LAMBDA request :
            IF result = "FaultyFailure"
            THEN report_peers([S EXCEPT !.ppl = @ \ {request}, !.fc = @ \cup {chain_hash}],
                              SetToSeq(request.block_used \cup request.blob_used),
                              "Penalty")
            ELSE [S EXCEPT !.ppl = @ \ {request}])

parent_chain_processed(S, chain_hash, result, e) ==
    IF ~\E x \in S.ppl : x.chain_hash = chain_hash THEN S
    ELSE
    LET request == CHOOSE x \in S.ppl : x.chain_hash = chain_hash
        S1 == [S EXCEPT !.ppl = @ \ {request}]
        index == FirstIndex(S.sbl, LAMBDA x : x.req.requested_block_root = chain_hash)
    IN  CASE result = "Success" ->
                IF index # 0 /\ S.sbl[index].req.downloaded_block
                                /\ processed_id(S.sbl[index]) # None
                THEN LET r == send_block_for_processing(
                                  S1, chain_hash, SingleBlock(processed_id(S.sbl[index])), e)
                     IN  IF r.ok THEN r.S ELSE [r.S EXCEPT !.sbl = RemoveAt(@, index)]
                ELSE S1
          [] result = "FaultyFailure" ->
                report_peers([S1 EXCEPT !.fc = @ \cup {chain_hash}],
                             SetToSeq(request.block_used \cup request.blob_used),
                             "Penalty")
          [] OTHER -> S1

(***************************************************************************)
(* The specification of the Block Lookups Manager: one action per event    *)
(* the Sync Manager routes to it.                                          *)
(***************************************************************************)
Cur == [sbl |-> single_block_lookups, pl |-> parent_lookups,
        ppl |-> processing_parent_lookups, fc |-> failed_chains,
        nid |-> next_id, req |-> <<>>, rep |-> <<>>, work |-> <<>>]

\* The handler's result T becomes the next state, answering the work item
\* `answered` (if any); the bounds of the model are guards.
LookupsSet(T, answered) ==
    /\ events_left > 0
    /\ T.nid <= MaxId + 1
    /\ Len(T.sbl) <= MaxSingleLookups
    /\ Len(T.pl) <= MaxParentLookups
    /\ single_block_lookups' = T.sbl
    /\ parent_lookups' = T.pl
    /\ processing_parent_lookups' = T.ppl
    /\ failed_chains' = T.fc
    /\ next_id' = T.nid
    /\ pending_work' = (pending_work \ answered) \cup Range(T.work)
    /\ events_left' = events_left - 1
    /\ lossy' = lossy

Commit(T, answered) ==
    /\ LookupsSet(T, answered)
    /\ UNCHANGED rpcVars
    /\ UNCHANGED syncVars
    /\ UNCHANGED statusVars

IssuedIds == 1..(next_id - 1)
ResponseData == {"Good", "Bad", "None"}

\* The environments of one event. A reliable environment sends every
\* request, accepts every work item and misses no blob. An event that finds no lookup does
\* not consult its environment; a new lookup has one candidate peer and
\* submits no work; a retry submits no work either.
QuietEnv == [net |-> TRUE, proc |-> TRUE, da |-> "complete", pref |-> 1]
RunEnvs == IF lossy THEN Envs ELSE {e \in Envs : e.net /\ e.proc /\ e.da = "complete"}
EnvsIf(found) == IF found THEN RunEnvs ELSE {QuietEnv}
SendEnvs == {e \in RunEnvs : e.proc /\ e.pref = 1}
RetryEnvs == {e \in RunEnvs : e.proc}
RetryEnvsIf(found) == IF found THEN RetryEnvs ELSE {QuietEnv}

single_position(id, rt) == find_single_lookup_request(Cur, id, rt)

parent_position(id, rt) ==
    FirstIndex(parent_lookups,
               LAMBDA x : IF rt = "Block" THEN pending_block_response(x, id)
                                          ELSE pending_blob_response(x, id))

\* The peer a response or failure for a request comes from: the peer the
\* request went to while a lookup still holds it.
SinglePeers(id, rt) ==
    LET idx == single_position(id, rt)
    IN  IF idx # 0 /\ StateOf(single_block_lookups[idx].req, rt).peer # None
        THEN {StateOf(single_block_lookups[idx].req, rt).peer} ELSE {1}

ParentPeers(id, rt) ==
    LET pos == parent_position(id, rt)
    IN  IF pos # 0 /\ StateOf(parent_lookups[pos].current_parent_request, rt).peer # None
        THEN {StateOf(parent_lookups[pos].current_parent_request, rt).peer} ELSE {1}

SearchBlock ==
    \E hash \in Roots, peer \in Peers, e \in SendEnvs :
        Commit(search_block(Cur, hash, peer, e), {})

\* search_current_unknown_parent: the caller holds the block already.
SearchCurrentUnknownParent ==
    \E hash \in Roots, peer \in Peers, e \in SendEnvs :
        Commit(search_block_with(Cur, TRUE, hash, peer, e), {})

SearchParent ==
    \E block_root \in Roots, peer \in Peers, e \in SendEnvs :
        Commit(search_parent(Cur, block_root, ParentOf(block_root), peer, e), {})

SingleBlockLookupResponse ==
    \E id \in IssuedIds, block \in ResponseData :
        \E peer \in SinglePeers(id, "Block"), e \in EnvsIf(single_position(id, "Block") # 0) :
            Commit(single_block_lookup_response(Cur, id, peer, block, e), {})

SingleBlobLookupResponse ==
    \E id \in IssuedIds, blob \in ResponseData :
        \E peer \in SinglePeers(id, "Blob"), e \in EnvsIf(single_position(id, "Blob") # 0) :
            Commit(single_blob_lookup_response(Cur, id, peer, blob, e), {})

ParentLookupResponse ==
    \E id \in IssuedIds, block \in ResponseData :
        \E peer \in ParentPeers(id, "Block"), e \in EnvsIf(parent_position(id, "Block") # 0) :
            Commit(parent_lookup_response(Cur, id, peer, block, e), {})

ParentLookupBlobResponse ==
    \E id \in IssuedIds, blob \in ResponseData :
        \E peer \in ParentPeers(id, "Blob"), e \in EnvsIf(parent_position(id, "Blob") # 0) :
            Commit(parent_lookup_blob_response(Cur, id, peer, blob, e), {})

PeerDisconnected ==
    \E peer \in Peers, e \in RetryEnvs :
        Commit(peer_disconnected(Cur, peer, e), {})

ParentLookupFailed ==
    \E id \in IssuedIds :
        \E peer \in ParentPeers(id, "Block"),
           e \in RetryEnvsIf(parent_position(id, "Block") # 0) :
            Commit(parent_lookup_failed(Cur, id, peer, e), {})

SingleBlockLookupFailed ==
    \E id \in IssuedIds :
        \E peer \in SinglePeers(id, "Block") \cup SinglePeers(id, "Blob"),
           e \in RetryEnvsIf(single_position(id, "Block") # 0
                              \/ single_position(id, "Blob") # 0) :
            Commit(single_block_lookup_failed(Cur, id, peer, e), {})

\* The response type a processing result carries: that of the work it answers.
WorkType(w) == IF w.kind = "rpc_blobs" THEN "Blob" ELSE "Block"

SingleBlockProcessed ==
    \E w \in pending_work, result \in BlockResults, e \in RunEnvs :
        /\ w.ptype.t = "SingleBlock"
        /\ result = "ParentUnknown" => w.root >= 1
        /\ Commit(single_block_processed(Cur, w.ptype.id, result, WorkType(w), e), {w})

ParentBlockProcessed ==
    \E w \in pending_work, result \in BlockResults, e \in RunEnvs :
        /\ w.ptype.t = "ParentLookup"
        /\ result = "ParentUnknown" => w.root >= 1
        /\ Commit(parent_block_processed(Cur, w.ptype.chain_hash, result, WorkType(w), e), {w})

ParentChainProcessed ==
    \E w \in pending_work, result \in BatchResults, e \in RunEnvs :
        /\ w.ptype.t = "ChainSegment"
        /\ Commit(parent_chain_processed(Cur, w.ptype.chain_hash, result, e), {w})

\* An entry of the failed-chains cache outlives its time to live.
FailedChainExpired ==
    \E root \in failed_chains :
        Commit([Cur EXCEPT !.fc = @ \ {root}], {})

\* spawn: no notifier, the execution layer assumed online, the loop running.
InitSync ==
    /\ running = TRUE
    /\ sync_state = "Stalled"
    /\ peer_db = [p \in Peers |-> [connected |-> FALSE, status |-> "Unknown"]]
    /\ execution_notifier = "None"
    /\ execution_state = "Online"
    /\ offline_pc = [h \in 1..NumHolders |-> "idle"]
    /\ sync_manager_tx = 0
    /\ notified = 0
    /\ subscriptions = 0
    /\ handled = [msg |-> "None", synced |-> FALSE, connected |-> FALSE,
                  distance |-> 0, started |-> FALSE]

InitManager ==
    /\ InitSync
    /\ single_block_lookups = <<>>
    /\ parent_lookups = <<>>
    /\ processing_parent_lookups = {}
    /\ failed_chains = {}
    /\ next_id = 1
    /\ pending_work = {}

\* RPC::new: empty queues, a full bucket for every key, the clock at 0.
InitInbound ==
    /\ events = <<>>
    /\ active_inbound_requests = {}
    /\ response_tokens = [k \in RpcPeers \X Protocols |-> Capacity]
    /\ delayed_responses = {}
    /\ now = 0
    /\ next_substream = 1
    /\ responses = <<>>
    /\ open_requests = {}

\* The self limiter is built when the configuration has outbound limits.
InitOutbound(on) ==
    /\ outbound_request_limiter =
           [on |-> on, tok |-> [k \in OutPeers \X Protocols |-> Capacity], q |-> <<>>]
    /\ connections = [p \in OutPeers |-> 0]
    /\ requests = <<>>

InitBehaviour == InitInbound /\ InitOutbound(FALSE)

InitLookups ==
    /\ InitManager
    /\ InitBehaviour
    /\ events_left = MaxEvents
    /\ lossy = FALSE

InitLossy ==
    /\ InitManager
    /\ InitBehaviour
    /\ events_left = MaxLossyEvents
    /\ lossy = TRUE

NextLookups ==
    \/ SearchBlock
    \/ SearchCurrentUnknownParent
    \/ SearchParent
    \/ SingleBlockLookupResponse
    \/ SingleBlobLookupResponse
    \/ ParentLookupResponse
    \/ ParentLookupBlobResponse
    \/ PeerDisconnected
    \/ ParentLookupFailed
    \/ SingleBlockLookupFailed
    \/ SingleBlockProcessed
    \/ ParentBlockProcessed
    \/ ParentChainProcessed
    \/ FailedChainExpired

\* The manager in a reliable environment, and in a lossy one.
SpecLookups == InitLookups /\ [][NextLookups]_vars
SpecLossy == InitLossy /\ [][NextLookups]_vars

\* The downloads of the lookups and the processing of single blocks under
\* any environment: requests may be refused, blobs may be missing.
NextDownloads ==
    \/ SearchBlock
    \/ SearchCurrentUnknownParent
    \/ SearchParent
    \/ SingleBlockLookupResponse
    \/ SingleBlobLookupResponse
    \/ ParentLookupResponse
    \/ ParentLookupBlobResponse
    \/ PeerDisconnected
    \/ ParentLookupFailed
    \/ SingleBlockLookupFailed
    \/ SingleBlockProcessed
    \/ ParentBlockProcessed

SpecDownloads == InitLossy /\ [][NextDownloads]_vars

\* The same manager, new or after it has given up the chain of block 1 (the
\* failed-chains cache then holds that chain hash).
InitFailedChain ==
    /\ InitSync
    /\ single_block_lookups = <<>>
    /\ parent_lookups = <<>>
    /\ processing_parent_lookups = {}
    /\ failed_chains \in {{}, {1}}
    /\ next_id = 1
    /\ pending_work = {}
    /\ InitBehaviour
    /\ events_left = MaxLossyEvents
    /\ lossy = TRUE

SpecFailedChain == InitFailedChain /\ [][NextDownloads]_vars

(***************************************************************************)
(* Properties of the Block Lookups Manager.  A property of one handler is  *)
(* stated on the handler applied to every reachable state and every input. *)
(***************************************************************************)
AllRoots == 0..NumRoots
ResponseTypes == {"Block", "Blob"}

SinglesFor(root) ==
    {i \in DOMAIN single_block_lookups :
        single_block_lookups[i].req.requested_block_root = root}
ParentsFor(root) ==
    {i \in DOMAIN parent_lookups :
        pl_requests(parent_lookups[i], root) \/ contains_block(parent_lookups[i], root)}

\* C1: every block root is tracked by at most one entry across
\* single_block_lookups and parent_lookups: no two single lookups for the
\* same root, no two parent lookups requesting or containing it, no single
\* lookup and parent lookup for it at once.
C1_OneEntryPerRoot ==
    \A root \in AllRoots :
        Cardinality(SinglesFor(root)) + Cardinality(ParentsFor(root)) <= 1

\* The parent lookup at position i is the one a processing result for its
\* chain hash reaches, and it is processing the given download.
ParentProcessing(i, rt) ==
    /\ FirstIndex(parent_lookups,
                  LAMBDA x : x.chain_hash = parent_lookups[i].chain_hash) = i
    /\ processing_peer(parent_lookups[i].current_parent_request, rt) # None

ChainFull(pl) == Len(pl.downloaded_blocks) = PARENT_FAIL_TOLERANCE

\* C2: a parent lookup's chain never holds more than PARENT_FAIL_TOLERANCE
\* blocks; when a ParentUnknown result would extend a chain beyond that, no
\* request is sent, the chain hash enters the failed-chains cache and the
\* lookup is not put back into parent_lookups.
C2_ChainDepthBounded ==
    /\ \A i \in DOMAIN parent_lookups :
          Len(parent_lookups[i].downloaded_blocks) <= PARENT_FAIL_TOLERANCE
    /\ \A i \in DOMAIN parent_lookups, rt \in ResponseTypes, e \in Envs :
          LET pl == parent_lookups[i]
              T == parent_block_processed(Cur, pl.chain_hash, "ParentUnknown", rt, e)
          IN  (ParentProcessing(i, rt) /\ ChainFull(pl)
                 /\ pl.current_parent_request.requested_block_root >= 1)
              => /\ T.req = <<>>
                 /\ pl.chain_hash \in T.fc
                 /\ T.pl = RemoveAt(parent_lookups, i)

\* A chain that a ParentUnknown result has filled is being processed again.
C2_Witness ==
    \E i \in DOMAIN parent_lookups :
        /\ ParentProcessing(i, "Block")
        /\ ChainFull(parent_lookups[i])
        /\ parent_lookups[i].current_parent_request.requested_block_root >= 1
        /\ \E w \in pending_work : w.ptype = ParentLookup(parent_lookups[i].chain_hash)

\* The single lookup at position i has a block request in flight to `peer`.
DownloadingBlockFrom(i, peer) ==
    /\ single_block_lookups[i].block_id # None
    /\ single_block_lookups[i].req.block_request_state.state = "Downloading"
    /\ single_block_lookups[i].req.block_request_state.peer = peer

\* C3: for a single lookup whose only known peer is P1 and whose block
\* request fails on the wire (the network accepting requests): while fewer
\* than SINGLE_BLOCK_LOOKUP_MAX_ATTEMPTS attempts have failed, the failure
\* re-issues the request to P1 and keeps the lookup; the failure that
\* completes SINGLE_BLOCK_LOOKUP_MAX_ATTEMPTS removes the lookup and issues
\* no request.  No lookup holds more failed attempts than that.
C3_ThreeAttempts ==
    /\ \A i \in DOMAIN single_block_lookups :
          failed_attempts(single_block_lookups[i].req.block_request_state)
              <= SINGLE_BLOCK_LOOKUP_MAX_ATTEMPTS
    /\ \A i \in DOMAIN single_block_lookups, P1 \in Peers, e \in Envs :
          LET ent == single_block_lookups[i]
              rs == ent.req.block_request_state
              T == single_block_lookup_failed(Cur, ent.block_id, P1, e)
          IN  (DownloadingBlockFrom(i, P1) /\ rs.available_peers = {P1} /\ e.net)
              => IF failed_attempts(rs) + 1 < SINGLE_BLOCK_LOOKUP_MAX_ATTEMPTS
                 THEN /\ T.req = <<[kind |-> "block", peer |-> P1,
                                    root |-> ent.req.requested_block_root,
                                    id |-> next_id]>>
                      /\ Len(T.sbl) = Len(single_block_lookups)
                      /\ T.sbl[i].block_id = next_id
                      /\ T.sbl[i].req.requested_block_root = ent.req.requested_block_root
                      /\ T.sbl[i].req.block_request_state.state = "Downloading"
                      /\ T.sbl[i].req.block_request_state.peer = P1
                 ELSE /\ T.req = <<>>
                      /\ T.sbl = RemoveAt(single_block_lookups, i)

\* A lookup with one peer has failed twice and asks that peer a third time.
C3_Witness ==
    \E i \in DOMAIN single_block_lookups, P1 \in Peers :
        /\ DownloadingBlockFrom(i, P1)
        /\ single_block_lookups[i].req.block_request_state.available_peers = {P1}
        /\ single_block_lookups[i].req.block_request_state.failed_downloading = 2

DownloadingBlobFrom(i, peer) ==
    /\ single_block_lookups[i].blob_id # None
    /\ single_block_lookups[i].req.blob_request_state.state = "Downloading"
    /\ single_block_lookups[i].req.blob_request_state.peer = peer

ParentDownloadingFrom(i, rt, peer) ==
    /\ StateOf(parent_lookups[i].current_parent_request, rt).state = "Downloading"
    /\ StateOf(parent_lookups[i].current_parent_request, rt).peer = peer

\* Candidates other than `peer` that the download has not asked yet.
Untried(rs, peer) == (rs.available_peers \ {peer}) \ rs.used_peers

\* The single lookup ent is in T, with one new block request to a peer
\* other than `peer` and its blob request untouched.
SingleRetried(T, ent, peer) ==
    \E j \in DOMAIN T.sbl :
        /\ T.sbl[j].req.requested_block_root = ent.req.requested_block_root
        /\ T.sbl[j].blob_id = ent.blob_id
        /\ \E k \in DOMAIN T.req :
              /\ T.req[k].id = T.sbl[j].block_id
              /\ T.req[k].peer # peer
              /\ T.req[k].root = ent.req.requested_block_root
        /\ Cardinality({k \in DOMAIN T.req :
                            T.req[k].kind \in {"block", "blobs"}
                            /\ T.req[k].root = ent.req.requested_block_root}) = 1

SingleKept(T, ent) ==
    \E j \in DOMAIN T.sbl :
        /\ T.sbl[j].req.requested_block_root = ent.req.requested_block_root
        /\ T.sbl[j].block_id = ent.block_id
        /\ T.sbl[j].blob_id = ent.blob_id

SingleRemoved(T, ent) ==
    \A j \in DOMAIN T.sbl :
        T.sbl[j].req.requested_block_root # ent.req.requested_block_root

ParentKept(T, pl) ==
    \E j \in DOMAIN T.pl :
        /\ T.pl[j].chain_hash = pl.chain_hash
        /\ T.pl[j].downloaded_blocks = pl.downloaded_blocks
        /\ T.pl[j].current_parent_request_id = pl.current_parent_request_id
        /\ T.pl[j].current_parent_blob_request_id = pl.current_parent_blob_request_id

ParentRemoved(T, pl) ==
    \A j \in DOMAIN T.pl :
        T.pl[j].current_parent_request_id # pl.current_parent_request_id

ParentRetried(T, pl, peer) ==
    \E j \in DOMAIN T.pl :
        /\ T.pl[j].chain_hash = pl.chain_hash
        /\ T.pl[j].downloaded_blocks = pl.downloaded_blocks
        /\ T.pl[j].current_parent_blob_request_id = pl.current_parent_blob_request_id
        /\ Cardinality({k \in DOMAIN T.req :
                            T.req[k].id = T.pl[j].current_parent_request_id
                            /\ T.req[k].peer # peer}) = 1

\* peer_disconnected leaves alone the lookups that are not downloading from
\* the peer, and removes those that were with no other candidate known.
C4_SoleAndIdle(P, e) ==
    LET T == peer_disconnected(Cur, P, e)
    IN  /\ \A i \in DOMAIN single_block_lookups :
              LET ent == single_block_lookups[i]
              IN  /\ (DownloadingBlockFrom(i, P)
                        /\ ent.req.block_request_state.available_peers = {P})
                     => SingleRemoved(T, ent)
                  /\ (~DownloadingBlockFrom(i, P) /\ ~DownloadingBlobFrom(i, P))
                     => SingleKept(T, ent)
        /\ \A i \in DOMAIN parent_lookups :
              LET pl == parent_lookups[i]
              IN  /\ (ParentDownloadingFrom(i, "Block", P)
                        /\ pl.current_parent_request_id # None
                        /\ pl.current_parent_request.block_request_state.available_peers = {P})
                     => ParentRemoved(T, pl)
                  /\ (~ParentDownloadingFrom(i, "Block", P)
                        /\ ~ParentDownloadingFrom(i, "Blob", P))
                     => ParentKept(T, pl)

\* A single lookup downloading its block from P with another candidate not
\* yet asked is kept and asked for once more, of a peer other than P.
\* attempts_left tells whether the statement is limited to lookups that the
\* failed attempt does not exhaust.
C4_RetrySingle(P, e, attempts_left) ==
    LET T == peer_disconnected(Cur, P, e)
    IN  \A i \in DOMAIN single_block_lookups :
            LET ent == single_block_lookups[i]
                rs == ent.req.block_request_state
            IN  (DownloadingBlockFrom(i, P) /\ ~DownloadingBlobFrom(i, P)
                   /\ Untried(rs, P) # {}
                   /\ (attempts_left =>
                          failed_attempts(rs) + 1 < SINGLE_BLOCK_LOOKUP_MAX_ATTEMPTS))
                => SingleRetried(T, ent, P)

\* The same of a parent lookup that the failed attempt does not exhaust.
C4_RetryParent(P, e) ==
    LET T == peer_disconnected(Cur, P, e)
    IN  \A i \in DOMAIN parent_lookups :
            LET pl == parent_lookups[i]
                rs == pl.current_parent_request.block_request_state
            IN  (ParentDownloadingFrom(i, "Block", P)
                   /\ ~ParentDownloadingFrom(i, "Blob", P)
                   /\ pl.current_parent_request_id # None
                   /\ Untried(rs, P) # {}
                   /\ failed_attempts(rs) + 1 < PARENT_FAIL_TOLERANCE)
                => ParentRetried(T, pl, P)

SendingEnvs == {e \in Envs : e.net /\ e.da = "complete"}

NotHeld(id) ==
    /\ \A i \in DOMAIN single_block_lookups :
          single_block_lookups[i].block_id # id /\ single_block_lookups[i].blob_id # id
    /\ \A i \in DOMAIN parent_lookups :
          /\ parent_lookups[i].current_parent_request_id # id
          /\ parent_lookups[i].current_parent_blob_request_id # id

\* C5: a wire response (block, blob or stream terminator) for a request id
\* that no lookup holds changes nothing: the lookups, the chains being
\* processed and the failed-chains cache stay as they are, no request is
\* sent, no peer reported, no work submitted.
C5_UnknownIdIsNoOp ==
    \A id \in {x \in IssuedIds : NotHeld(x)} :
        \A peer \in Peers, data \in ResponseData, e \in Envs :
           /\ single_block_lookup_response(Cur, id, peer, data, e) = Cur
           /\ single_blob_lookup_response(Cur, id, peer, data, e) = Cur
           /\ parent_lookup_response(Cur, id, peer, data, e) = Cur
           /\ parent_lookup_blob_response(Cur, id, peer, data, e) = Cur

\* A request was issued and no lookup holds it any more, others being held.
C5_Witness ==
    /\ \E id \in IssuedIds : NotHeld(id)
    /\ \E id \in IssuedIds : ~NotHeld(id)

RECURSIVE Reverse(_)
Reverse(seq) == IF seq = <<>> THEN <<>> ELSE Append(Reverse(Tail(seq)), Head(seq))

\* Nothing keeps search_parent from starting a lookup for the block.
ParentSearchable(block_root) ==
    /\ block_root \notin failed_chains
    /\ ParentOf(block_root) \notin failed_chains
    /\ \A i \in DOMAIN parent_lookups :
          /\ ~contains_block(parent_lookups[i], block_root)
          /\ ~pl_requests(parent_lookups[i], block_root)
    /\ \A x \in processing_parent_lookups : \A j \in DOMAIN x.hashes :
          x.hashes[j] # block_root /\ x.hashes[j] # ParentOf(block_root)

\* Block B with unknown parent A reported by P: a parent lookup with chain
\* hash B joins parent_lookups and A is requested from P.
C6_Created ==
    \A B \in Roots, P \in Peers, e \in SendingEnvs :
        LET T == search_parent(Cur, B, ParentOf(B), P, e)
        IN  ParentSearchable(B)
            => /\ Len(T.pl) = Len(parent_lookups) + 1
               /\ T.pl[Len(T.pl)].chain_hash = B
               /\ T.pl[Len(T.pl)].current_parent_request.requested_block_root = ParentOf(B)
               /\ T.pl[Len(T.pl)].current_parent_request_id = next_id
               /\ T.req = <<[kind |-> "parent_block", peer |-> P,
                             root |-> ParentOf(B), id |-> next_id]>>

\* The parent A of a chain is processed as Imported or already known (the
\* processor accepting work): one chain_segment is submitted with the
\* blocks Blocks(pl), and the chain moves from parent_lookups into
\* processing_parent_lookups under its chain hash.
C6_Submitted(Blocks(_)) ==
    \A i \in DOMAIN parent_lookups, result \in {"Imported", "BlockIsAlreadyKnown"},
       e \in {x \in Envs : x.proc} :
        LET pl == parent_lookups[i]
            T == parent_block_processed(Cur, pl.chain_hash, result, "Block", e)
        IN  ParentProcessing(i, "Block")
            => /\ T.work = <<[kind |-> "chain_segment", root |-> pl.chain_hash,
                              ptype |-> ChainSegment(pl.chain_hash),
                              blocks |-> Blocks(pl)]>>
               /\ T.pl = RemoveAt(parent_lookups, i)
               /\ \E x \in T.ppl : x.chain_hash = pl.chain_hash
                                   /\ x.hashes = pl.downloaded_blocks

\* The chain from its oldest ancestor, the parent just processed, to its tip.
OldestFirst(pl) ==
    <<pl.current_parent_request.requested_block_root>>
        \o Reverse(pl.downloaded_blocks) \o <<pl.chain_hash>>

Held(pl) == pl.downloaded_blocks

MAX_CONCURRENT_REQUESTS == 2
\* An error response is a single chunk.
ErrorCost == 1
\* The events queue is drained by poll; at most this many wait at once.
MaxQueue == 2

Costs == 1..(Capacity + 1)

\* The behaviour's fields as one record, so that a handler is an operator
\* from a record to a record.  rs and open are history: rs[rid] is the
\* rid-th response given to send_response, open the requests admitted and
\* not yet completed.
Behaviour ==
    [ev |-> events, act |-> active_inbound_requests, tok |-> response_tokens,
     dq |-> delayed_responses, rs |-> responses, open |-> open_requests,
     sl |-> outbound_request_limiter, out |-> requests]

\* ---- ActiveRequestsLimiter ------------------------------------------
active_count(B, peer, proto) ==
    Cardinality({x \in B.act : x.peer = peer /\ x.proto = proto})

\* allows: refuses when the (peer, protocol) already has the maximum
\* number of requests, and records the request otherwise.
active_allows(B, peer, proto) ==
    active_count(B, peer, proto) < MAX_CONCURRENT_REQUESTS

active_insert(B, peer, proto, id) ==
    [B EXCEPT !.act = @ \cup {[peer |-> peer, proto |-> proto, id |-> id]}]

remove_request(B, peer, id) ==
    [B EXCEPT !.act = {x \in @ : ~(x.peer = peer /\ x.id = id)}]

remove_peer(B, peer) ==
    [B EXCEPT !.act = {x \in @ : x.peer # peer}]

\* ---- RateLimiter: one token bucket per (peer, protocol) ---------------
\* The bucket refills one token per tick up to Capacity (see Tick).
rate_allows(B, peer, proto, cost) ==
    IF cost > Capacity THEN "TooLarge"
    ELSE IF B.tok[<<peer, proto>>] >= cost THEN "Ok"
    ELSE "TooSoon"

rate_wait(B, peer, proto, cost) == cost - B.tok[<<peer, proto>>]

rate_take(B, peer, proto, cost) ==
    [B EXCEPT !.tok[<<peer, proto>>] = @ - cost]

refill(tok) == [k \in DOMAIN tok |-> Min({Capacity, tok[k] + 1})]

\* ---- RPC ------------------------------------------------------------
\* A variant that makes a response that can never fit wait for a full bucket.
try_response_limiter_strict(B, peer, event) ==
    IF rate_allows(B, peer, event.proto, event.cost) = "Ok"
    THEN [ok |-> TRUE, wait |-> 0, B |-> rate_take(B, peer, event.proto, event.cost)]
    ELSE [ok |-> FALSE, wait |-> Capacity - B.tok[<<peer, event.proto>>] + 1, B |-> B]

\* Result of try_response_limiter: ok, or the time to wait.
try_response_limiter(B, peer, event) ==
    LET verdict == rate_allows(B, peer, event.proto, event.cost) IN
    CASE verdict = "Ok" ->
            [ok |-> TRUE, wait |-> 0, B |-> rate_take(B, peer, event.proto, event.cost)]
      [] verdict = "TooLarge" ->
            [ok |-> TRUE, wait |-> 0, B |-> B]
      [] OTHER ->
            [ok |-> FALSE, wait |-> rate_wait(B, peer, event.proto, event.cost), B |-> B]

SentCount(B) == Cardinality({i \in DOMAIN B.rs : B.rs[i].sent_no > 0})

send_response_inner(B, peer, id, rid, t) ==
    [B EXCEPT !.ev = Append(@, [t |-> "Response", peer |-> peer, id |-> id, rid |-> rid]),
              !.rs[rid].sends = @ + 1,
              !.rs[rid].sent_no = SentCount(B) + 1,
              !.rs[rid].sent_at = t]

send_response(B, peer, id, event, t) ==
    LET rid == Len(B.rs) + 1
        B1 == remove_request(B, peer, id)
        L == try_response_limiter(B1, peer, event)
        B2 == [L.B EXCEPT
                 !.rs = Append(@, [peer |-> peer, proto |-> event.proto, id |-> id,
                                   kind |-> event.kind, cost |-> event.cost,
                                   at |-> t, due |-> t + L.wait, deferred |-> ~L.ok,
                                   sends |-> 0, sent_no |-> 0, sent_at |-> 0]),
                 !.open = IF event.kind = "Chunk" THEN @
                          ELSE {x \in @ : ~(x.peer = peer /\ x.id = id)}]
    IN  IF L.ok THEN send_response_inner(B2, peer, id, rid, t)
        ELSE [B2 EXCEPT !.dq = @ \cup {[rid |-> rid, due |-> t + L.wait]}]

is_request_size_too_large(req) == req.proto = "BlocksByRange" /\ req.oversized

ErrorResponse(proto) == [kind |-> "Error", proto |-> proto, cost |-> ErrorCost]

Forward(B, peer, id, what) ==
    [B EXCEPT !.ev = Append(@, [t |-> what, peer |-> peer, id |-> id, rid |-> 0])]

\* event is [t, id, proto, oversized]: an inbound request, the handler's
\* Close, an inbound error of the handler, or any other handler event.
on_connection_handler_event(B, peer, event, t) ==
    CASE event.t = "Request" ->
            IF ~active_allows(B, peer, event.proto)
            THEN send_response(B, peer, event.id, ErrorResponse(event.proto), t)
            ELSE LET B1 == active_insert(B, peer, event.proto, event.id)
                     B2 == [B1 EXCEPT !.open = @ \cup {[peer |-> peer, proto |-> event.proto,
                                                        id |-> event.id]}]
                 IN  IF is_request_size_too_large(event)
                     THEN send_response(B2, peer, event.id, ErrorResponse(event.proto), t)
                     ELSE Forward(B2, peer, event.id, "Request")
      [] event.t = "Close" ->
            LET B1 == remove_peer(B, peer)
                B2 == [B1 EXCEPT !.open = {x \in @ : x.peer # peer}]
            IN  [B2 EXCEPT !.ev = Append(@, [t |-> "Close", peer |-> peer, id |-> 0, rid |-> 0])]
      [] OTHER ->
            LET B1 == [B EXCEPT !.open = IF event.t = "InboundErr"
                                         THEN {x \in @ : ~(x.peer = peer /\ x.id = event.id)}
                                         ELSE @]
            IN  Forward(B1, peer, event.id, event.t)

\* DelayQueue::poll_expired yields an entry whose instant has come, the
\* earliest first.
poll_expired(dq, t) == {d \in dq : d.due <= t /\ \A o \in dq : o.due >= d.due}

\* ---- SelfRateLimiter: one token bucket and one queue per (peer, protocol)
\* A request costs one token.
self_waiting(sl, peer, proto) ==
    {i \in DOMAIN sl.q : sl.q[i].peer = peer /\ sl.q[i].proto = proto}

\* allows: a request goes out when nothing waits on its (peer, protocol) and
\* the bucket has a token; it is queued inside the limiter otherwise.
self_allows(sl, peer, proto) ==
    self_waiting(sl, peer, proto) = {} /\ sl.tok[<<peer, proto>>] >= 1

self_take(sl, peer, proto) == [sl EXCEPT !.tok[<<peer, proto>>] = @ - 1]

self_queue(sl, peer, proto, id) ==
    [sl EXCEPT !.q = Append(@, [peer |-> peer, proto |-> proto, id |-> id])]

\* poll_ready: the queued requests that may go out now, each the oldest of
\* its (peer, protocol).
self_ready(sl) ==
    {i \in DOMAIN sl.q :
        /\ sl.tok[<<sl.q[i].peer, sl.q[i].proto>>] >= 1
        /\ \A j \in self_waiting(sl, sl.q[i].peer, sl.q[i].proto) : j >= i}

\* peer_disconnected: the queued requests of the peer leave the limiter.
self_peer_disconnected(sl, peer) == SelectSeq(sl.q, LAMBDA r : r.peer = peer)

self_without_peer(sl, peer) == [sl EXCEPT !.q = SelectSeq(@, LAMBDA r : r.peer # peer)]

RequestEvent(peer, id, proto) ==
    [t |-> "SendRequest", peer |-> peer, id |-> id, rid |-> 0, proto |-> proto]

DisconnectedEvent(peer, id, proto) ==
    [t |-> "Disconnected", peer |-> peer, id |-> id, rid |-> 0, proto |-> proto]

ShutdownEvent(peer, id) == [t |-> "Shutdown", peer |-> peer, id |-> id, rid |-> 0]

\* shutdown: a Goodbye for the peer's handler is queued.
shutdown(B, peer, id) == [B EXCEPT !.ev = Append(@, ShutdownEvent(peer, id))]

\* A send_request that hands a limited request to the handler and keeps it
\* in the limiter as well.
send_request_twice(B, peer, id, proto) ==
    LET B1 == [B EXCEPT !.out = Append(@, [peer |-> peer, proto |-> proto,
                                           limited |-> B.sl.on /\ ~self_allows(B.sl, peer, proto),
                                           handed |-> 0, failed |-> 0])]
    IN  IF B.sl.on /\ ~self_allows(B.sl, peer, proto)
        THEN [B1 EXCEPT !.sl = self_queue(@, peer, proto, id),
                        !.ev = Append(@, RequestEvent(peer, id, proto))]
        ELSE [B1 EXCEPT !.sl = IF B.sl.on THEN self_take(@, peer, proto) ELSE @,
                        !.ev = Append(@, RequestEvent(peer, id, proto))]

send_request(B, peer, id, proto) ==
    LET B1 == [B EXCEPT !.out = Append(@, [peer |-> peer, proto |-> proto,
                                           limited |-> B.sl.on /\ ~self_allows(B.sl, peer, proto),
                                           handed |-> 0, failed |-> 0])]
    IN  IF B.sl.on
        THEN IF self_allows(B.sl, peer, proto)
             THEN [B1 EXCEPT !.sl = self_take(@, peer, proto),
                             !.ev = Append(@, RequestEvent(peer, id, proto))]
             ELSE [B1 EXCEPT !.sl = self_queue(@, peer, proto, id)]
        ELSE [B1 EXCEPT !.ev = Append(@, RequestEvent(peer, id, proto))]

\* The pending requests of the events queue to the peer become reports of
\* failed requests.
replace_pending(ev, peer) ==
    [i \in DOMAIN ev |->
        IF ev[i].t = "SendRequest" /\ ev[i].peer = peer
        THEN DisconnectedEvent(peer, ev[i].id, ev[i].proto) ELSE ev[i]]

disconnected_errors(q, peer) ==
    [i \in DOMAIN q |-> DisconnectedEvent(peer, q[i].id, q[i].proto)]

\* A variant that reports the failed requests at the end of the queue.
on_swarm_event_requeueing(B, peer, remaining) ==
    IF remaining > 0 THEN B
    ELSE [B EXCEPT
            !.sl = IF B.sl.on THEN self_without_peer(@, peer) ELSE @,
            !.ev = SelectSeq(@, LAMBDA x : ~(x.t = "SendRequest" /\ x.peer = peer))
                   \o SelectSeq(replace_pending(@, peer),
                                LAMBDA x : x.t = "Disconnected" /\ x.peer = peer)
                   \o (IF B.sl.on
                       THEN disconnected_errors(self_peer_disconnected(B.sl, peer), peer)
                       ELSE <<>>)]

\* ConnectionClosed, remaining the connections the peer still has.
on_swarm_event(B, peer, remaining) ==
    IF remaining > 0 THEN B
    ELSE [B EXCEPT
            !.sl = IF B.sl.on THEN self_without_peer(@, peer) ELSE @,
            !.ev = replace_pending(
                       IF B.sl.on
                       THEN @ \o disconnected_errors(self_peer_disconnected(B.sl, peer), peer)
                       ELSE @, peer)]

\* poll, first step: a request the self limiter lets go is pushed.
poll_self_limiter(B) ==
    IF B.sl.on /\ self_ready(B.sl) # {}
    THEN Bind(Min(self_ready(B.sl)), LAMBDA i :
            [B EXCEPT !.sl = self_take([@ EXCEPT !.q = RemoveAt(@, i)],
                                       B.sl.q[i].peer, B.sl.q[i].proto),
                      !.ev = Append(@, RequestEvent(B.sl.q[i].peer, B.sl.q[i].id,
                                                   B.sl.q[i].proto))])
    ELSE B

\* poll, last step: the head of the events queue is returned to the swarm,
\* which hands a request to a handler of the peer and an error to the
\* application.
poll_return(B) ==
    IF B.ev = <<>> THEN B
    ELSE [B EXCEPT
            !.ev = Tail(@),
            !.out = IF Head(B.ev).t = "SendRequest"
                    THEN [@ EXCEPT ![Head(B.ev).id].handed = @ + 1]
                    ELSE IF Head(B.ev).t = "Disconnected"
                    THEN [@ EXCEPT ![Head(B.ev).id].failed = @ + 1]
                    ELSE @]

\* A poll that sends the delayed response and leaves it in the queue.
poll_keeps_entry(B, t, pick) ==
    poll_return(
        IF pick \in B.dq
        THEN [poll_self_limiter(B) EXCEPT
                !.ev = Append(@, [t |-> "Response", peer |-> B.rs[pick.rid].peer,
                                  id |-> B.rs[pick.rid].id, rid |-> pick.rid]),
                !.rs[pick.rid].sends = @ + 1,
                !.rs[pick.rid].sent_at = t]
        ELSE poll_self_limiter(B))

\* poll: a request the self limiter lets go is pushed; one expired delayed
\* response, if any, is sent; then the head of the events queue is returned
\* to the swarm.
poll(B, t, pick) ==
    poll_return(
        IF pick \in B.dq
        THEN send_response_inner([poll_self_limiter(B) EXCEPT !.dq = @ \ {pick}],
                                 B.rs[pick.rid].peer, B.rs[pick.rid].id, pick.rid, t)
        ELSE poll_self_limiter(B))

NoEntry == [rid |-> 0, due |-> 0]

\* ---- actions --------------------------------------------------------
RpcSet(T) ==
    /\ events' = T.ev
    /\ active_inbound_requests' = T.act
    /\ response_tokens' = T.tok
    /\ delayed_responses' = T.dq
    /\ responses' = T.rs
    /\ open_requests' = T.open
    /\ outbound_request_limiter' = T.sl
    /\ requests' = T.out
    /\ UNCHANGED <<single_block_lookups, parent_lookups, processing_parent_lookups,
                   failed_chains, next_id, pending_work, lossy>>
    /\ UNCHANGED syncVars
    /\ UNCHANGED statusVars

RpcCommit(T) ==
    /\ Len(T.ev) <= MaxQueue
    /\ Len(T.rs) <= MaxResponses
    /\ RpcSet(T)
    /\ UNCHANGED connections

\* A request, a response of the application or an event of the handler.
RpcInput(T) ==
    /\ events_left > 0
    /\ events_left' = events_left - 1
    /\ now <= MaxClock
    /\ now' = now
    /\ RpcCommit(T)

InboundRequest ==
    \E peer \in RpcPeers, proto \in Protocols, oversized \in BOOLEAN :
        /\ oversized => proto = "BlocksByRange"
        /\ RpcInput(on_connection_handler_event(Behaviour, peer,
                        [t |-> "Request", id |-> next_substream, proto |-> proto,
                         oversized |-> oversized], now))
        /\ next_substream' = next_substream + 1

SendResponse ==
    \E req \in open_requests, kind \in {"Chunk", "Last"}, cost \in Costs :
        /\ RpcInput(send_response(Behaviour, req.peer, req.id,
                        [kind |-> kind, proto |-> req.proto, cost |-> cost], now))
        /\ UNCHANGED next_substream

HandlerInboundError ==
    \E req \in open_requests :
        /\ RpcInput(on_connection_handler_event(Behaviour, req.peer,
                        [t |-> "InboundErr", id |-> req.id, proto |-> req.proto,
                         oversized |-> FALSE], now))
        /\ UNCHANGED next_substream

HandlerOther ==
    \E peer \in RpcPeers :
        /\ RpcInput(on_connection_handler_event(Behaviour, peer,
                        [t |-> "Other", id |-> 0, proto |-> "Status",
                         oversized |-> FALSE], now))
        /\ UNCHANGED next_substream

HandlerClose ==
    \E peer \in RpcPeers :
        /\ RpcInput(on_connection_handler_event(Behaviour, peer,
                        [t |-> "Close", id |-> 0, proto |-> "Status",
                         oversized |-> FALSE], now))
        /\ UNCHANGED next_substream

Poll ==
    LET ready == poll_expired(delayed_responses, now) IN
    /\ \/ ready # {}
       \/ events # <<>>
       \/ outbound_request_limiter.on /\ self_ready(outbound_request_limiter) # {}
    /\ \E pick \in (IF ready = {} THEN {NoEntry} ELSE ready) :
           RpcSet(poll(Behaviour, now, pick))
    /\ UNCHANGED <<now, next_substream, events_left, connections>>

Tick ==
    /\ now < MaxClock + Capacity
    /\ now' = now + 1
    /\ response_tokens' = refill(response_tokens)
    /\ outbound_request_limiter' = [outbound_request_limiter EXCEPT !.tok = refill(@)]
    /\ UNCHANGED <<events, active_inbound_requests, delayed_responses, next_substream,
                   responses, open_requests, connections, requests>>
    /\ UNCHANGED lookupVars
    /\ UNCHANGED syncVars
    /\ UNCHANGED statusVars

\* ---- outbound requests and connections ------------------------------
\* "The peer must be connected for this to succeed."
SendRequest ==
    \E peer \in OutPeers, proto \in Protocols :
        /\ connections[peer] > 0
        /\ Len(requests) < MaxOutRequests
        /\ RpcInput(send_request(Behaviour, peer, Len(requests) + 1, proto))
        /\ UNCHANGED next_substream

ConnectionEstablished ==
    \E peer \in OutPeers :
        /\ connections[peer] < MaxConns
        /\ events_left > 0
        /\ events_left' = events_left - 1
        /\ connections' = [connections EXCEPT ![peer] = @ + 1]
        /\ RpcSet(Behaviour)
        /\ UNCHANGED <<now, next_substream>>

ConnectionClosed ==
    \E peer \in OutPeers :
        /\ connections[peer] > 0
        /\ connections' = [connections EXCEPT ![peer] = @ - 1]
        /\ RpcSet(on_swarm_event(Behaviour, peer, connections[peer] - 1))
        /\ UNCHANGED <<now, next_substream, events_left>>

\* The application says goodbye to a peer.
Shutdown ==
    \E peer \in OutPeers :
        /\ connections[peer] > 0
        /\ RpcInput(shutdown(Behaviour, peer, 0))
        /\ UNCHANGED next_substream

InitOut ==
    /\ InitManager
    /\ events_left = MaxOutEvents
    /\ lossy = FALSE
    /\ InitInbound
    /\ \E on \in BOOLEAN : InitOutbound(on)

NextOut ==
    \/ SendRequest
    \/ ConnectionEstablished
    \/ ConnectionClosed
    \/ HandlerOther
    \/ Poll
    \/ Tick

\* The swarm polls the behaviour whenever it has something to return, and
\* time passes.
SpecOut == InitOut /\ [][NextOut]_vars /\ WF_vars(Poll) /\ WF_vars(Tick)

\* Connections closing while requests, responses and goodbyes are queued,
\* within one tick of the clock.
NextClose ==
    \/ SendRequest
    \/ Shutdown
    \/ InboundRequest
    \/ SendResponse
    \/ ConnectionEstablished
    \/ ConnectionClosed
    \/ Poll

SpecClose == InitOut /\ [][NextClose]_vars

InitRpc ==
    /\ InitManager
    /\ events_left = MaxRpcEvents
    /\ lossy = FALSE
    /\ InitBehaviour

NextRpc ==
    \/ InboundRequest
    \/ SendResponse
    \/ HandlerInboundError
    \/ HandlerOther
    \/ HandlerClose
    \/ Poll
    \/ Tick

SpecRpc == InitRpc /\ [][NextRpc]_vars

\* The swarm polls the behaviour whenever it has something to return or a
\* timer of the delay queue has fired, and time passes.
InitRpcFair ==
    /\ InitManager
    /\ events_left = MaxFairEvents
    /\ lossy = FALSE
    /\ InitBehaviour

SpecRpcFair == InitRpcFair /\ [][NextRpc]_vars /\ WF_vars(Poll) /\ WF_vars(Tick)

\* ---- properties of the RPC behaviour ---------------------------------
OpenOn(peer, proto) == {x \in open_requests : x.peer = peer /\ x.proto = proto}
RequestOn(proto) ==
    [t |-> "Request", id |-> next_substream, proto |-> proto, oversized |-> FALSE]
AfterRequest(peer, proto) ==
    on_connection_handler_event(Behaviour, peer, RequestOn(proto), now)

\* C7: with two requests of a (peer, protocol) admitted and not completed,
\* a third request on that protocol is not forwarded to the application;
\* its RateLimited error goes onto the events queue in the same step and
\* never into the delay queue, whatever the response bucket holds.
C7_RefusalAnsweredAtOnce ==
    \A peer \in RpcPeers, proto \in Protocols :
        (/\ Cardinality(OpenOn(peer, proto)) = MAX_CONCURRENT_REQUESTS
         /\ active_count(Behaviour, peer, proto) = MAX_CONCURRENT_REQUESTS
         /\ Len(events) < MaxQueue /\ Len(responses) < MaxResponses)
        => LET T == AfterRequest(peer, proto) IN
            /\ T.open = open_requests
            /\ T.dq = delayed_responses
            /\ Len(T.ev) = Len(events) + 1
            /\ T.ev[Len(T.ev)].t = "Response"
            /\ T.rs[T.ev[Len(T.ev)].rid].kind = "Error"

\* C8: the limiter's count of a (peer, protocol) is the number of its
\* requests admitted and not yet completed (by a fully sent response, an
\* inbound error of the handler, or the end of the stream), and is at
\* most two.
C8_CountIsOpenRequests ==
    \A peer \in RpcPeers, proto \in Protocols :
        /\ active_count(Behaviour, peer, proto) = Cardinality(OpenOn(peer, proto))
        /\ active_count(Behaviour, peer, proto) <= MAX_CONCURRENT_REQUESTS

\* C9: two responses of one (peer, protocol) given to send_response one
\* after the other at the same instant, each within capacity and together
\* above it, are not both let through to the handler at one instant inside
\* the refill window; responses that waited in the delay queue included.
C9_NoDoubleLetThrough ==
    \A a, b \in DOMAIN responses :
        (/\ b = a + 1
         /\ responses[a].peer = responses[b].peer
         /\ responses[a].proto = responses[b].proto
         /\ responses[a].at = responses[b].at
         /\ responses[a].cost <= Capacity /\ responses[b].cost <= Capacity
         /\ responses[a].cost + responses[b].cost > Capacity
         /\ responses[a].sends > 0 /\ responses[b].sends > 0)
        => ~(/\ responses[a].sent_at = responses[b].sent_at
             /\ responses[a].sent_at < responses[a].at + Capacity)

Deferred(rid) == rid \in DOMAIN responses /\ responses[rid].deferred
Delivered(rid) == rid \in DOMAIN responses /\ responses[rid].sends = 1

DelayQueueSafe ==
    /\ \A rid \in DOMAIN responses :
          responses[rid].deferred =>
            /\ responses[rid].sends <= 1
            /\ responses[rid].sends = 1 => responses[rid].sent_at >= responses[rid].due
            /\ responses[rid].sends = 0 <=> (\E d \in delayed_responses : d.rid = rid)
    /\ \A a, b \in DOMAIN responses :
          (/\ responses[a].deferred /\ responses[b].deferred
           /\ responses[a].sends > 0 /\ responses[b].sends > 0
           /\ responses[a].sent_no < responses[b].sent_no)
          => responses[a].due <= responses[b].due

\* C10: every response deferred into the delay queue is later handed to
\* the handler exactly once, not before its scheduled instant, and the
\* delayed responses leave in the order of their scheduled instants.
C10_DeferredDeliveredOnceInOrder ==
    /\ []DelayQueueSafe
    /\ \A rid \in 1..MaxResponses : Deferred(rid) ~> Delivered(rid)

\* Two deferred responses with different instants have both been handed
\* over.
C10_Witness ==
    \E a, b \in DOMAIN responses :
        /\ responses[a].deferred /\ responses[b].deferred
        /\ responses[a].sends = 1 /\ responses[b].sends = 1
        /\ responses[a].due < responses[b].due

\* ---- C11 ------------------------------------------------------------
ResponseEvents == [kind : {"Chunk", "Last", "Error"}, proto : Protocols, cost : Costs]
\* The ids a response may carry: those of the open requests, and one that
\* no request has.
ResponseIds == {r.id : r \in open_requests} \cup {next_substream}

\* C11: a response the limiter can never fit (TooLarge) is emitted by
\* send_response in the same step, without taking tokens and without
\* entering the delay queue; only a TooSoon verdict puts a response into
\* the delay queue.
C11_TooLargeSentAtOnce ==
    \A peer \in RpcPeers, id \in ResponseIds, event \in ResponseEvents :
        LET T == send_response(Behaviour, peer, id, event, now)
            verdict == rate_allows(Behaviour, peer, event.proto, event.cost)
            rid == Len(responses) + 1
        IN  /\ verdict = "TooLarge" =>
                /\ T.dq = delayed_responses
                /\ T.tok = response_tokens
                /\ T.ev = Append(events, [t |-> "Response", peer |-> peer, id |-> id,
                                          rid |-> rid])
                /\ T.rs[rid].sends = 1 /\ T.rs[rid].sent_at = now
            /\ T.dq # delayed_responses => verdict = "TooSoon"

\* A response above the capacity was sent at the instant it was handed
\* in, with an empty bucket, and another response went into the queue.
C11_Witness ==
    /\ \E rid \in DOMAIN responses :
          /\ responses[rid].cost > Capacity
          /\ responses[rid].sends = 1 /\ ~responses[rid].deferred
          /\ responses[rid].sent_at = responses[rid].at
          /\ response_tokens[<<responses[rid].peer, responses[rid].proto>>] = 0
    /\ delayed_responses # {}

\* ---- outbound requests ----------------------------------------------
InLimiter(id) == Cardinality({i \in DOMAIN outbound_request_limiter.q :
                                outbound_request_limiter.q[i].id = id})
InEvents(id, what) == Cardinality({i \in DOMAIN events :
                                     events[i].t = what /\ events[i].id = id})
Outcomes(id) == requests[id].handed + requests[id].failed

\* A request is in exactly one place: waiting in the self limiter, waiting
\* in the events queue as a request or as a Disconnected error, or past one
\* of its two outcomes.
OneOutcome ==
    \A id \in DOMAIN requests :
        InLimiter(id) + InEvents(id, "SendRequest") + InEvents(id, "Disconnected")
            + Outcomes(id) = 1

\* C12: every request given to send_request is handed to a handler as a
\* request or reported to the application as one Disconnected error, never
\* both and never neither: in every state it is in exactly one place, and
\* it leaves the limiter and the events queue towards one outcome.
C12_OneTerminalOutcome ==
    /\ []OneOutcome
    /\ \A id \in 1..MaxOutRequests :
           (id \in DOMAIN requests) ~> (id \in DOMAIN requests /\ Outcomes(id) = 1)

\* A request that waited in the self limiter and one that waited in the
\* events queue were both reported Disconnected, a third was handed over.
C12_Witness ==
    /\ outbound_request_limiter.on
    /\ \E a, b, c \in DOMAIN requests :
           /\ requests[a].limited /\ requests[a].failed = 1
           /\ ~requests[b].limited /\ requests[b].failed = 1
           /\ requests[c].handed = 1

\* ======================================================================
\* Sync Manager: the main loop and the global sync state
\* (network/src/sync/manager.rs)
\* ======================================================================
SyncStates == {"Stalled", "SyncingFinalized", "SyncingHead", "SyncTransition",
               "Synced", "BackFillSyncing"}
PeerSyncTypes == {"Advanced", "FullySynced", "Behind"}
\* Slots on both sides of the tolerance.
Slots == {0, 1, SLOT_IMPORT_TOLERANCE, SLOT_IMPORT_TOLERANCE + 1, SLOT_IMPORT_TOLERANCE + 2}

\* What one handler reads from the chain, the range sync and the backfill
\* sync: range_sync.state(), backfill_sync.start(), the head slot, the
\* clock's slot and whether the chain's status can be read.
ChainEnv(range, backfill, head, current, status_ok) ==
    [range |-> range, backfill |-> backfill, head |-> head, current |-> current,
     status_ok |-> status_ok]
\* Head and clock: no head yet, the clock at the head, ahead of it by the
\* tolerance and by more, and behind it.
HeadAndClock == {<<0, 0>>, <<1, 1>>, <<1, SLOT_IMPORT_TOLERANCE + 1>>,
                 <<1, SLOT_IMPORT_TOLERANCE + 2>>, <<SLOT_IMPORT_TOLERANCE + 1, 1>>}
ChainEnvs ==
    {ChainEnv(r, b, hc[1], hc[2], TRUE) :
        r \in {"Err", "Idle", "Finalized", "Head"},
        b \in {"Syncing", "NotSyncing", "Err"}, hc \in HeadAndClock}
NoStatus == ChainEnv("Idle", "NotSyncing", 1, 1, FALSE)
HeadEnvs == {ChainEnv("Idle", "NotSyncing", h, h, TRUE) : h \in Slots}

\* The manager as a handler finds it; evals counts the handler's calls of
\* update_sync_state, ranged holds the peers it gives to range sync and
\* backfill its calls of the backfill sync ("pause", "start"), in order.
Manager ==
    [state |-> sync_state, peers |-> peer_db, notifier |-> execution_notifier,
     exec |-> execution_state, subs |-> subscriptions, running |-> running,
     evals |-> 0, ranged |-> {}, backfill |-> <<>>]

is_synced(state) == state \in {"Synced", "BackFillSyncing"}

advanced_peers(peers) ==
    {p \in DOMAIN peers : peers[p].connected /\ peers[p].status = "Advanced"}

synced_peers(peers) ==
    {p \in DOMAIN peers : peers[p].connected /\ peers[p].status = "FullySynced"}

\* The state update_sync_state computes when range sync is idle.
idle_sync_state(M, c) ==
    IF c.current >= c.head /\ c.current - c.head <= SLOT_IMPORT_TOLERANCE /\ c.head > 0
    THEN "Synced"
    ELSE IF advanced_peers(M.peers) # {} THEN "SyncTransition"
    ELSE IF synced_peers(M.peers) = {} THEN "Stalled"
    ELSE "Synced"

new_sync_state(M, c) ==
    CASE c.range = "Idle" ->
            IF idle_sync_state(M, c) = "Synced" /\ c.backfill = "Syncing"
            THEN "BackFillSyncing" ELSE idle_sync_state(M, c)
      [] c.range = "Finalized" -> "SyncingFinalized"
      [] OTHER -> "SyncingHead"

\* A variant that tries to start the backfill whatever range sync does.
backfill_calls_eager(M, c) ==
    IF c.range = "Idle" THEN <<"start">> ELSE <<"pause", "start">>

\* What one evaluation asks of the backfill sync: pause() while range sync
\* runs a chain, start() when the node would otherwise be Synced.
backfill_calls(M, c) ==
    CASE c.range = "Idle" ->
            IF idle_sync_state(M, c) = "Synced" THEN <<"start">> ELSE <<>>
      [] c.range \in {"Finalized", "Head"} -> <<"pause">>
      [] OTHER -> <<>>

\* A variant that subscribes whenever the state changed to a synced one.
update_sync_state_resubscribing(M, c) ==
    IF c.range = "Err" THEN [M EXCEPT !.evals = @ + 1]
    ELSE [M EXCEPT !.evals = @ + 1,
                   !.backfill = @ \o backfill_calls(M, c),
                   !.state = new_sync_state(M, c),
                   !.subs = IF new_sync_state(M, c) # M.state
                               /\ is_synced(new_sync_state(M, c))
                            THEN @ + 1 ELSE @]

update_sync_state(M, c) ==
    IF c.range = "Err" THEN [M EXCEPT !.evals = @ + 1]
    ELSE [M EXCEPT !.evals = @ + 1,
                   !.backfill = @ \o backfill_calls(M, c),
                   !.state = new_sync_state(M, c),
                   !.subs = IF new_sync_state(M, c) # M.state
                               /\ is_synced(new_sync_state(M, c))
                               /\ M.state \notin {"Synced", "BackFillSyncing"}
                            THEN @ + 1 ELSE @]

\* A variant that gives range sync every advanced peer.
manager_add_peer_unconnected(M, peer, sync_type, c) ==
    IF ~c.status_ok THEN M
    ELSE update_sync_state(
             [M EXCEPT !.peers[peer].status = sync_type,
                       !.ranged = IF sync_type = "Advanced" THEN @ \cup {peer} ELSE @], c)

\* update_peer_sync_state answers whether the peer is connected.
manager_add_peer(M, peer, sync_type, c) ==
    IF ~c.status_ok THEN M
    ELSE update_sync_state(
             [M EXCEPT !.peers[peer].status = sync_type,
                       !.ranged = IF sync_type = "Advanced" /\ M.peers[peer].connected
                                  THEN @ \cup {peer} ELSE @], c)

peer_disconnect(R, peer, c, e) ==
    [M |-> update_sync_state(R.M, c), S |-> peer_disconnected(R.S, peer, e)]

\* The arm of the execution status listener: the execution layer went
\* offline; notifier tells whether it hands back an online notifier.
execution_offline(M, notifier) ==
    IF notifier THEN [M EXCEPT !.notifier = "Waiting", !.exec = "Offline"]
    ELSE [M EXCEPT !.running = FALSE, !.exec = "Offline"]

\* The arm of the execution notifier: the execution layer is back online.
execution_online(M, c) ==
    update_sync_state([M EXCEPT !.exec = "Online", !.notifier = "None"], c)

Distance(a, b) == IF a >= b THEN a - b ELSE b - a

\* A variant that looks the block up whatever the state of the node.
unknown_block_eager(R, peer, slot, root, c, e) ==
    IF R.M.peers[peer].connected
    THEN [R EXCEPT !.S = search_parent(R.S, root, ParentOf(root), peer, e)]
    ELSE R

\* The arm of SyncMessage::UnknownBlock.
unknown_block(R, peer, slot, root, c, e) ==
    IF /\ ~is_synced(R.M.state)
       /\ \/ c.head >= slot /\ c.head - slot > SLOT_IMPORT_TOLERANCE
          \/ c.head < slot /\ slot - c.head > SLOT_IMPORT_TOLERANCE
    THEN R
    ELSE IF R.M.peers[peer].connected
    THEN [R EXCEPT !.S = search_parent(R.S, root, ParentOf(root), peer, e)]
    ELSE R

\* The arm of SyncMessage::UnknownBlockHash.
unknown_block_hash(R, peer, root, e) ==
    IF is_synced(R.M.state) /\ R.M.peers[peer].connected
    THEN [R EXCEPT !.S = search_block(R.S, root, peer, e)]
    ELSE R

\* rpc_block_received, for the request ids of the Block Lookups Manager.
rpc_block_received(R, request_id, peer, block, e) ==
    IF request_id.t = "SingleBlock"
    THEN [R EXCEPT !.S = single_block_lookup_response(R.S, request_id.id, peer, block, e)]
    ELSE [R EXCEPT !.S = parent_lookup_response(R.S, request_id.id, peer, block, e)]

\* The arm of SyncMessage::BlockProcessed.
block_processed(R, process_type, result, rt, e) ==
    IF process_type.t = "SingleBlock"
    THEN [R EXCEPT !.S = single_block_processed(R.S, process_type.id, result, rt, e)]
    ELSE [R EXCEPT !.S = parent_block_processed(R.S, process_type.chain_hash, result, rt, e)]

RangeBatchId == [t |-> "RangeBatchId", chain_hash |-> None]
BackSyncBatchId == [t |-> "BackSyncBatchId", chain_hash |-> None]
\* What backfill_sync.on_batch_process_result answers.
BackfillResults == {"Successful", "SyncCompleted", "Err"}

\* A variant that re-evaluates the sync state after every batch.
batch_processed_reevaluating(R, sync_type, result, backfill, c, e) ==
    CASE sync_type.t \in {"RangeBatchId", "BackSyncBatchId"} ->
            [R EXCEPT !.M = update_sync_state(@, c)]
      [] OTHER ->
            [R EXCEPT !.M = update_sync_state(@, c),
                      !.S = parent_chain_processed(R.S, sync_type.chain_hash, result, e)]

\* The arm of SyncMessage::BatchProcessed; backfill is the answer of the
\* backfill sync to the result, when the batch is one of its own.
batch_processed(R, sync_type, result, backfill, c, e) ==
    CASE sync_type.t = "RangeBatchId" ->
            [R EXCEPT !.M = update_sync_state(@, c)]
      [] sync_type.t = "BackSyncBatchId" ->
            IF backfill = "Successful" THEN R
            ELSE [R EXCEPT !.M = update_sync_state(@, c)]
      [] OTHER ->
            [R EXCEPT !.S = parent_chain_processed(R.S, sync_type.chain_hash, result, e)]

\* ---- actions --------------------------------------------------------
SyncSet(M) ==
    /\ running
    /\ events_left > 0
    /\ sync_state' = M.state
    /\ peer_db' = M.peers
    /\ execution_notifier' = M.notifier
    /\ execution_state' = M.exec
    /\ subscriptions' = M.subs
    /\ running' = M.running
    /\ UNCHANGED rpcVars
    /\ UNCHANGED statusVars

Both == [M |-> Manager, S |-> Cur]

Handled(msg, peer, distance, R) ==
    handled' = [msg |-> msg, synced |-> is_synced(sync_state),
                connected |-> peer_db[peer].connected, distance |-> distance,
                started |-> R.S # Cur]

\* The peer manager records a connection, or the loss of one.
PeerConnected ==
    \E peer \in Peers :
        /\ ~peer_db[peer].connected
        /\ SyncSet([Manager EXCEPT !.peers[peer].connected = TRUE])
        /\ LookupsSet(Cur, {})
        /\ UNCHANGED handled

PeerLeft ==
    \E peer \in Peers :
        /\ peer_db[peer].connected
        /\ SyncSet([Manager EXCEPT !.peers[peer].connected = FALSE])
        /\ LookupsSet(Cur, {})
        /\ UNCHANGED handled

AddPeer ==
    \E peer \in Peers, sync_type \in PeerSyncTypes, c \in ChainEnvs \cup {NoStatus} :
        /\ SyncSet(manager_add_peer(Manager, peer, sync_type, c))
        /\ LookupsSet(Cur, {})
        /\ UNCHANGED handled

Disconnect ==
    \E peer \in Peers, c \in ChainEnvs, e \in RetryEnvs :
        /\ ~peer_db[peer].connected
        /\ events_left > 0
        /\ Bind(peer_disconnect(Both, peer, c, e), LAMBDA R :
                SyncSet(R.M) /\ LookupsSet(R.S, {}))
        /\ UNCHANGED handled

UnknownBlock ==
    \E peer \in Peers, slot \in Slots, root \in Roots, c \in HeadEnvs, e \in SendEnvs :
        /\ events_left > 0
        /\ Bind(unknown_block(Both, peer, slot, root, c, e), LAMBDA R :
                /\ SyncSet(R.M)
                /\ LookupsSet(R.S, {})
                /\ Handled("UnknownBlock", peer, Distance(c.head, slot), R))

UnknownBlockHash ==
    \E peer \in Peers, root \in Roots, e \in SendEnvs :
        /\ events_left > 0
        /\ Bind(unknown_block_hash(Both, peer, root, e), LAMBDA R :
                /\ SyncSet(R.M)
                /\ LookupsSet(R.S, {})
                /\ Handled("UnknownBlockHash", peer, 0, R))

RpcBlock ==
    \E id \in IssuedIds, t \in {"SingleBlock", "ParentLookup"}, block \in ResponseData :
        \E peer \in IF t = "SingleBlock" THEN SinglePeers(id, "Block")
                                         ELSE ParentPeers(id, "Block"),
           e \in RunEnvs :
            /\ events_left > 0
            /\ Bind(rpc_block_received(Both, [t |-> t, id |-> id], peer, block, e), LAMBDA R :
                    /\ SyncSet(R.M)
                    /\ LookupsSet(R.S, {})
                    /\ Handled("RpcBlock", peer, 0, R))

BlockProcessed ==
    \E w \in pending_work, result \in BlockResults, e \in RunEnvs :
        /\ events_left > 0
        /\ w.ptype.t \in {"SingleBlock", "ParentLookup"}
        /\ result = "ParentUnknown" => w.root >= 1
        /\ Bind(block_processed(Both, w.ptype, result, WorkType(w), e), LAMBDA R :
                /\ SyncSet(R.M)
                /\ LookupsSet(R.S, {w})
                /\ Handled("BlockProcessed", 1, 0, R))

\* The BatchProcessed messages of a state with what their handling reads:
\* a range batch reads the chain, a backfill batch the backfill sync's
\* answer and, unless that is Successful, the chain, a parent chain segment
\* the result and the network.
BatchMessage(sync_type, result, backfill, c, e) ==
    [sync_type |-> sync_type, result |-> result, backfill |-> backfill, c |-> c, e |-> e]
BatchMessages ==
    {BatchMessage(RangeBatchId, "Success", "Successful", c, QuietEnv) : c \in ChainEnvs}
    \cup {BatchMessage(BackSyncBatchId, "Success", "Successful", NoStatus, QuietEnv)}
    \cup {BatchMessage(BackSyncBatchId, "Success", b, c, QuietEnv) :
             b \in BackfillResults \ {"Successful"}, c \in ChainEnvs}
    \cup {BatchMessage(w.ptype, r, "Successful", NoStatus, e) :
             w \in {v \in pending_work : v.ptype.t = "ChainSegment"},
             r \in BatchResults, e \in RunEnvs}

\* A batch of range sync, of backfill sync or of a parent lookup was
\* processed.
BatchProcessed ==
    \E m \in BatchMessages :
        /\ events_left > 0
        /\ Bind(batch_processed(Both, m.sync_type, m.result, m.backfill, m.c, m.e), LAMBDA R :
                /\ SyncSet(R.M)
                /\ LookupsSet(R.S, {w \in pending_work : w.ptype = m.sync_type})
                /\ Handled("BatchProcessed", 1, 0, R))

ExecutionOffline ==
    \E notifier \in BOOLEAN :
        /\ execution_state = "Online"
        /\ SyncSet(execution_offline(Manager, notifier))
        /\ LookupsSet(Cur, {})
        /\ UNCHANGED handled

ExecutionOnline ==
    \E c \in ChainEnvs :
        /\ execution_notifier = "Waiting"
        /\ SyncSet(execution_online(Manager, c))
        /\ LookupsSet(Cur, {})
        /\ UNCHANGED handled

InitSyncManager ==
    /\ InitManager
    /\ InitBehaviour
    /\ events_left = MaxSyncEvents
    /\ lossy = FALSE

NextSync ==
    \/ ExecutionOnline
    \/ ExecutionOffline
    \/ PeerConnected
    \/ PeerLeft
    \/ AddPeer
    \/ Disconnect
    \/ UnknownBlock
    \/ UnknownBlockHash
    \/ RpcBlock
    \/ BlockProcessed
    \/ BatchProcessed

SpecSync == InitSyncManager /\ [][NextSync]_vars

\* ---- the execution status handler, step by step --------------------
\* offline() is three steps: status() under the read lock, try_send, and the
\* write of Offline under the write lock; the holders of the handle may
\* interleave between them, and with the Sync Manager's loop.
StatusFrame ==
    /\ UNCHANGED lookupVars
    /\ UNCHANGED rpcVars
    /\ UNCHANGED <<sync_state, peer_db, subscriptions, handled>>

\* if let Some(ExecutionState::Online) = self.status()
OfflineStatus ==
    \E h \in 1..NumHolders :
        /\ offline_pc[h] = "idle"
        /\ execution_state = "Online"
        /\ offline_pc' = [offline_pc EXCEPT ![h] = "checked"]
        /\ UNCHANGED <<sync_manager_tx, notified, execution_state, execution_notifier,
                       running>>
        /\ StatusFrame

\* self.sync_manager_tx.try_send(()): Err when the channel is full.
OfflineTrySend ==
    \E h \in 1..NumHolders :
        /\ offline_pc[h] = "checked"
        /\ IF sync_manager_tx < STATUS_CHANNEL_CAPACITY
           THEN /\ sync_manager_tx' = sync_manager_tx + 1
                /\ notified' = notified + 1
                /\ offline_pc' = [offline_pc EXCEPT ![h] = "sent"]
           ELSE /\ offline_pc' = [offline_pc EXCEPT ![h] = "idle"]
                /\ UNCHANGED <<sync_manager_tx, notified>>
        /\ UNCHANGED <<execution_state, execution_notifier, running>>
        /\ StatusFrame

\* *self.state.write() = Some(ExecutionState::Offline)
OfflineWrite ==
    \E h \in 1..NumHolders :
        /\ offline_pc[h] = "sent"
        /\ execution_state' = "Offline"
        /\ offline_pc' = [offline_pc EXCEPT ![h] = "idle"]
        /\ UNCHANGED <<sync_manager_tx, notified, execution_notifier, running>>
        /\ StatusFrame

\* The arm of the execution status listener: a queued message is taken and
\* the online notifier installed; without one the loop returns.
StatusListener ==
    \E notifier \in BOOLEAN :
        /\ running
        /\ events_left > 0
        /\ sync_manager_tx > 0
        /\ sync_manager_tx' = sync_manager_tx - 1
        /\ execution_notifier' = IF notifier THEN "Waiting" ELSE execution_notifier
        /\ running' = notifier
        /\ UNCHANGED <<offline_pc, notified, execution_state>>
        /\ UNCHANGED <<sync_state, peer_db, subscriptions, handled>>
        /\ LookupsSet(Cur, {})
        /\ UNCHANGED rpcVars

\* The arm of the execution notifier: online(), then the sync state is
\* evaluated again.
NotifierFires ==
    \E c \in ChainEnvs :
        /\ running
        /\ execution_notifier = "Waiting"
        /\ Bind(execution_online(Manager, c), LAMBDA M :
              /\ sync_state' = M.state
              /\ peer_db' = M.peers
              /\ execution_notifier' = M.notifier
              /\ execution_state' = M.exec
              /\ subscriptions' = M.subs
              /\ running' = M.running)
        /\ notified' = 0
        /\ UNCHANGED <<offline_pc, sync_manager_tx, handled>>
        /\ LookupsSet(Cur, {})
        /\ UNCHANGED rpcVars

NextStatus ==
    \/ OfflineStatus
    \/ OfflineTrySend
    \/ OfflineWrite
    \/ StatusListener
    \/ NotifierFires

SpecStatus == InitSyncManager /\ [][NextStatus]_vars

\* ---- properties of the Sync Manager ----------------------------------
\* C13: the main loop never exits because of an event or an error: after
\* any sequence of messages and execution-layer signals, one without an
\* online notifier included, the task is still running.
C13_MainLoopRuns == running

\* C14: update_sync_state subscribes to the core topics once when the state
\* goes from one that is neither Synced nor BackFillSyncing to a synced one,
\* and does not subscribe on any other evaluation.
C14_SubscribesOncePerTransition ==
    \A c \in ChainEnvs :
        update_sync_state(Manager, c).subs =
            IF is_synced(update_sync_state(Manager, c).state) /\ ~is_synced(sync_state)
            THEN subscriptions + 1 ELSE subscriptions

\* The node became synced twice, and is now backfilling.
C14_Witness == subscriptions = 2 /\ sync_state = "BackFillSyncing"

\* C15: while a connected peer is advanced, the state update_sync_state
\* computes is neither Synced nor BackFillSyncing.
C15_NotSyncedWhileAdvanced ==
    \A c \in ChainEnvs :
        (advanced_peers(peer_db) # {} /\ c.range # "Err")
            => ~is_synced(update_sync_state(Manager, c).state)

UnknownBlockAccepted(peer, slot, c) ==
    /\ peer_db[peer].connected
    /\ is_synced(sync_state) \/ Distance(c.head, slot) <= SLOT_IMPORT_TOLERANCE

UnknownBlockHashAccepted(peer) == peer_db[peer].connected /\ is_synced(sync_state)

\* C16: an UnknownBlock message is handed to search_parent exactly when its
\* peer is connected and the node is synced or the block is within
\* SLOT_IMPORT_TOLERANCE slots of the head (the tolerance itself included);
\* an UnknownBlockHash message is handed to search_block exactly when its
\* peer is connected and the node is synced; any other message leaves the
\* manager and the lookups as they were.
C16_UnknownBlockGated ==
    \A peer \in Peers, root \in Roots, e \in SendEnvs :
        /\ \A slot \in Slots, c \in HeadEnvs :
              unknown_block(Both, peer, slot, root, c, e) =
                  IF UnknownBlockAccepted(peer, slot, c)
                  THEN [Both EXCEPT !.S = search_parent(Cur, root, ParentOf(root), peer, e)]
                  ELSE Both
        /\ unknown_block_hash(Both, peer, root, e) =
              IF UnknownBlockHashAccepted(peer)
              THEN [Both EXCEPT !.S = search_block(Cur, root, peer, e)]
              ELSE Both

\* A block exactly the tolerance away from the head started a lookup while
\* the node was not synced.
C16_Witness ==
    /\ handled.msg = "UnknownBlock"
    /\ ~handled.synced
    /\ handled.connected
    /\ handled.distance = SLOT_IMPORT_TOLERANCE
    /\ handled.started
    /\ parent_lookups # <<>>

\* ---- further properties of the Block Lookups Manager -------------------
InFailedChain(block_root) ==
    block_root \in failed_chains \/ ParentOf(block_root) \in failed_chains

\* C17: search_parent for a block that is, or whose parent is, in the
\* failed-chains cache is a silent drop: no lookup, no request, no report,
\* no work, and the lookups and the cache are as they were.
C17_FailedChainIsDropped ==
    \A block_root \in Roots, peer \in Peers, e \in RunEnvs :
        InFailedChain(block_root)
            => search_parent(Cur, block_root, ParentOf(block_root), peer, e) = Cur

\* A block is in the cache, its parent is not, and nothing else would keep
\* search_parent from starting a lookup for it.
C17_Witness ==
    \E block_root \in Roots :
        /\ block_root \in failed_chains
        /\ ParentOf(block_root) \notin failed_chains
        /\ Len(parent_lookups) < MaxParentLookups
        /\ \A i \in DOMAIN parent_lookups :
              /\ ~contains_block(parent_lookups[i], block_root)
              /\ ~pl_requests(parent_lookups[i], block_root)
        /\ \A x \in processing_parent_lookups : \A j \in DOMAIN x.hashes :
              x.hashes[j] # block_root /\ x.hashes[j] # ParentOf(block_root)

SingleTarget(hash) ==
    \E i \in DOMAIN single_block_lookups :
        single_block_lookups[i].req.requested_block_root = hash
ParentTarget(hash) ==
    \E i \in DOMAIN parent_lookups :
        pl_requests(parent_lookups[i], hash) \/ contains_block(parent_lookups[i], hash)
InProcessing(hash) ==
    \E x \in processing_parent_lookups : \E i \in DOMAIN x.hashes : x.hashes[i] = hash

\* C18: search_block for a root that a single lookup targets, that a parent
\* lookup requests or has downloaded, or that is among the hashes of a chain
\* being processed creates no lookup and sends no request; for any other
\* root it creates exactly one new single lookup, for that root.
C18_SearchBlockOncePerRoot ==
    \A hash \in Roots, peer \in Peers, e \in RunEnvs :
        Bind(search_block(Cur, hash, peer, e), LAMBDA T :
            IF SingleTarget(hash) \/ ParentTarget(hash) \/ InProcessing(hash)
            THEN /\ Len(T.sbl) = Len(single_block_lookups)
                 /\ Len(T.pl) = Len(parent_lookups)
                 /\ T.req = <<>>
            ELSE /\ Len(T.sbl) = Len(single_block_lookups) + 1
                 /\ SubSeq(T.sbl, 1, Len(single_block_lookups)) = single_block_lookups
                 /\ T.sbl[Len(T.sbl)].req.requested_block_root = hash
                 /\ T.pl = parent_lookups)

\* One root is the target of a single lookup, another is held by a parent
\* lookup, and a third is covered by nothing.
C18_Witness ==
    \E a, b, c \in Roots :
        /\ SingleTarget(a) /\ ~ParentTarget(a) /\ ~InProcessing(a)
        /\ ParentTarget(b) /\ ~SingleTarget(b) /\ ~InProcessing(b)
        /\ ~SingleTarget(c) /\ ~ParentTarget(c) /\ ~InProcessing(c)
        /\ Len(single_block_lookups) < MaxSingleLookups

SingleInProcessing(id, rt) ==
    \E i \in DOMAIN single_block_lookups :
        /\ i = FirstIndex(single_block_lookups, LAMBDA x : processed_id(x) = id)
        /\ processing_peer(single_block_lookups[i].req, rt) # None
ParentInProcessing(chain_hash, rt) ==
    \E i \in DOMAIN parent_lookups :
        /\ parent_lookups[i].chain_hash = chain_hash
        /\ processing_peer(parent_lookups[i].current_parent_request, rt) # None

\* C19: a processing result that says the execution layer is offline
\* reports no peer, for a single lookup and for a parent lookup.
C19_OfflineReportsNoPeer ==
    \A rt \in ResponseTypes, e \in RunEnvs :
        /\ \A id \in IssuedIds :
              single_block_processed(Cur, id, "ExecutionOffline", rt, e).rep = <<>>
        /\ \A chain_hash \in Roots :
              parent_block_processed(Cur, chain_hash, "ExecutionOffline", rt, e).rep = <<>>

\* A single lookup and a parent lookup both have a block with the processor.
C19_Witness ==
    /\ \E id \in IssuedIds : SingleInProcessing(id, "Block")
    /\ \E chain_hash \in Roots : ParentInProcessing(chain_hash, "Block")

\* C20: a lookup whose processing failed because the execution layer is
\* offline is still tracked afterwards.
C20_OfflineLookupKept ==
    \A rt \in ResponseTypes, e \in RunEnvs :
        /\ \A id \in IssuedIds :
              SingleInProcessing(id, rt) =>
                  Len(single_block_processed(Cur, id, "ExecutionOffline", rt, e).sbl)
                      = Len(single_block_lookups)
        /\ \A chain_hash \in Roots :
              ParentInProcessing(chain_hash, rt) =>
                  \E i \in DOMAIN parent_block_processed(Cur, chain_hash, "ExecutionOffline",
                                                         rt, e).pl :
                      parent_block_processed(Cur, chain_hash, "ExecutionOffline",
                                             rt, e).pl[i].chain_hash = chain_hash

UsedPeers(x) == x.block_used \cup x.blob_used
Reported(T) == {T.rep[i].peer : i \in DOMAIN T.rep}
StillProcessing(T, chain_hash) == \E y \in T.ppl : y.chain_hash = chain_hash

\* C21: parent_chain_processed reports the peers and fills the failed-chains
\* cache exactly on a faulty failure: then every peer the chain's request
\* used, for block or blobs, is reported once with the penalty and the chain
\* hash is in the cache; on a non-faulty failure no peer is reported and the
\* cache is as it was; in every case the chain leaves
\* processing_parent_lookups.
C21_PenaltyOnlyOnFaultyFailure ==
    \A x \in processing_parent_lookups, e \in Envs :
        /\ Bind(parent_chain_processed(Cur, x.chain_hash, "FaultyFailure", e), LAMBDA T :
              /\ Reported(T) = UsedPeers(x)
              /\ Len(T.rep) = Cardinality(UsedPeers(x))
              /\ \A i \in DOMAIN T.rep : T.rep[i].action = "Penalty"
              /\ T.fc = failed_chains \cup {x.chain_hash}
              /\ ~StillProcessing(T, x.chain_hash))
        /\ Bind(parent_chain_processed(Cur, x.chain_hash, "NonFaultyFailure", e), LAMBDA T :
              /\ T.rep = <<>>
              /\ T.fc = failed_chains
              /\ ~StillProcessing(T, x.chain_hash))
        /\ Bind(parent_chain_processed(Cur, x.chain_hash, "Success", e), LAMBDA T :
              /\ T.rep = <<>>
              /\ T.fc = failed_chains
              /\ ~StillProcessing(T, x.chain_hash))

\* A chain whose request used a peer is being processed and is not yet in
\* the cache.
C21_Witness ==
    \E x \in processing_parent_lookups :
        UsedPeers(x) # {} /\ x.chain_hash \notin failed_chains

\* The single lookup that holds the block the chain grew from, 0 if none.
HeldTip(chain_hash) ==
    FirstIndex(single_block_lookups, LAMBDA l : l.req.requested_block_root = chain_hash)
TipReady(chain_hash) ==
    /\ HeldTip(chain_hash) # 0
    /\ single_block_lookups[HeldTip(chain_hash)].req.downloaded_block
    /\ processed_id(single_block_lookups[HeldTip(chain_hash)]) # None

ParentRequested(root) ==
    \E i \in DOMAIN parent_lookups : pl_requests(parent_lookups[i], root)

\* C23: search_parent for a block whose parent is the block a parent lookup
\* is requesting creates no second parent lookup and sends no second
\* request for that parent.
C23_NoSecondParentRequest ==
    \A block_root \in Roots, peer \in Peers, e \in RunEnvs :
        ParentRequested(ParentOf(block_root)) =>
            Bind(search_parent(Cur, block_root, ParentOf(block_root), peer, e), LAMBDA T :
                /\ Len(T.pl) = Len(parent_lookups)
                /\ \A i \in DOMAIN T.req : T.req[i].root # ParentOf(block_root))

\* The environment of e in which the Beacon Processor is absent or refuses
\* the work.
Refusing(e) == [e EXCEPT !.proc = FALSE]
\* The handler's result neither reports, nor requests, nor submits.
Silent(T) == T.rep = <<>> /\ T.req = <<>> /\ T.work = <<>> /\ T.nid = next_id

\* The environments in which the Beacon Processor takes the work and the
\* network would take a request.
Accepting == {x \in Envs : x.proc /\ x.net}

\* C24: whenever a handler would submit work to the Beacon Processor and the
\* submission fails, the lookup whose data was submitted is removed (the
\* single lookup leaves single_block_lookups, the parent lookup is not put
\* back into parent_lookups, the chain segment is not recorded in
\* processing_parent_lookups), no peer is reported and no request is sent.
C24_FailedSubmissionDropsLookup ==
    /\ \A id \in IssuedIds :
        /\ single_position(id, "Block") # 0 =>
             \A peer \in SinglePeers(id, "Block"), data \in ResponseData, e \in Accepting :
               single_block_lookup_response(Cur, id, peer, data, e).work # <<>>
               => Bind(single_block_lookup_response(Cur, id, peer, data, Refusing(e)), LAMBDA T :
                    /\ Silent(T)
                    /\ T.sbl = RemoveAt(single_block_lookups, single_position(id, "Block"))
                    /\ T.pl = parent_lookups /\ T.ppl = processing_parent_lookups)
        /\ single_position(id, "Blob") # 0 =>
             \A peer \in SinglePeers(id, "Blob"), data \in ResponseData, e \in Accepting :
               single_blob_lookup_response(Cur, id, peer, data, e).work # <<>>
               => Bind(single_blob_lookup_response(Cur, id, peer, data, Refusing(e)), LAMBDA T :
                    /\ Silent(T)
                    /\ T.sbl = RemoveAt(single_block_lookups, single_position(id, "Blob"))
                    /\ T.pl = parent_lookups /\ T.ppl = processing_parent_lookups)
        /\ parent_position(id, "Block") # 0 =>
             \A peer \in ParentPeers(id, "Block"), data \in ResponseData, e \in Accepting :
               parent_lookup_response(Cur, id, peer, data, e).work # <<>>
               => Bind(parent_lookup_response(Cur, id, peer, data, Refusing(e)), LAMBDA T :
                    /\ Silent(T)
                    /\ T.pl = RemoveAt(parent_lookups, parent_position(id, "Block"))
                    /\ T.sbl = single_block_lookups /\ T.ppl = processing_parent_lookups)
        /\ parent_position(id, "Blob") # 0 =>
             \A peer \in ParentPeers(id, "Blob"), data \in ResponseData, e \in Accepting :
               parent_lookup_blob_response(Cur, id, peer, data, e).work # <<>>
               => Bind(parent_lookup_blob_response(Cur, id, peer, data, Refusing(e)), LAMBDA T :
                    /\ Silent(T)
                    /\ T.pl = RemoveAt(parent_lookups, parent_position(id, "Blob"))
                    /\ T.sbl = single_block_lookups /\ T.ppl = processing_parent_lookups)
    /\ \A i \in DOMAIN parent_lookups, result \in BlockResults, rt \in ResponseTypes,
          e \in Accepting :
          Bind(parent_lookups[i].chain_hash, LAMBDA chain_hash :
            parent_block_processed(Cur, chain_hash, result, rt, e).work # <<>> =>
               Bind(parent_block_processed(Cur, chain_hash, result, rt, Refusing(e)), LAMBDA T :
                  /\ Silent(T)
                  /\ T.pl = RemoveAt(parent_lookups,
                                      FirstIndex(parent_lookups,
                                                 LAMBDA y : y.chain_hash = chain_hash))
                  /\ T.sbl = single_block_lookups /\ T.ppl = processing_parent_lookups))
    /\ \A request \in processing_parent_lookups, result \in BatchResults, e \in Accepting :
          parent_chain_processed(Cur, request.chain_hash, result, e).work # <<>> =>
             Bind(parent_chain_processed(Cur, request.chain_hash, result, Refusing(e)), LAMBDA T :
                /\ Silent(T)
                /\ T.sbl = RemoveAt(single_block_lookups, HeldTip(request.chain_hash))
                /\ T.pl = parent_lookups
                /\ T.ppl = processing_parent_lookups \ {request})

\* A single lookup and a parent lookup each await a response that would be
\* handed to the Beacon Processor.
C24_Witness ==
    /\ \E id \in IssuedIds, peer \in Peers :
          single_block_lookup_response(Cur, id, peer, "Good", QuietEnv).work # <<>>
    /\ \E id \in IssuedIds, peer \in Peers :
          parent_lookup_response(Cur, id, peer, "Good", QuietEnv).work # <<>>

\* C25 as stated: every AddPeer message is followed by update_sync_state,
\* whether or not the chain's status could be read, and range sync is given
\* the peer only when it is Advanced and connected.
C25_AsStated ==
    \A peer \in Peers, sync_type \in PeerSyncTypes, c \in ChainEnvs \cup {NoStatus} :
        Bind(manager_add_peer(Manager, peer, sync_type, c), LAMBDA M :
            /\ M.evals >= 1
            /\ peer \in M.ranged => sync_type = "Advanced" /\ peer_db[peer].connected)

\* C25, amended: an AddPeer message for which the chain's status could be
\* read is followed by exactly one update_sync_state, whatever the peer's
\* classification, and range sync is given the peer exactly when it is
\* Advanced and connected; when the status cannot be read the message
\* changes nothing and update_sync_state is not called.
C25_AddPeerReevaluates ==
    \A peer \in Peers, sync_type \in PeerSyncTypes :
        /\ \A c \in ChainEnvs :
              Bind(manager_add_peer(Manager, peer, sync_type, c), LAMBDA M :
                  /\ M.evals = 1
                  /\ M.peers[peer].status = sync_type
                  /\ M.ranged = IF sync_type = "Advanced" /\ peer_db[peer].connected
                                THEN {peer} ELSE {})
        /\ manager_add_peer(Manager, peer, sync_type, NoStatus) = Manager

\* AddPeer classified a connected peer Advanced and a disconnected one too.
C25_Witness ==
    \E p, q \in Peers :
        /\ peer_db[p].connected /\ peer_db[p].status = "Advanced"
        /\ ~peer_db[q].connected /\ peer_db[q].status = "Advanced"

\* The BlockProcessed messages a state can receive: the answers to the
\* blocks and blobs the lookups have submitted.
BlockWork == {w \in pending_work : w.ptype.t \in {"SingleBlock", "ParentLookup"}}

\* C26 as stated: every BlockProcessed and every BatchProcessed message is
\* followed by update_sync_state, for every process type.
C26_AsStated ==
    /\ \A w \in BlockWork, result \in BlockResults, e \in RunEnvs :
          block_processed(Both, w.ptype, result, WorkType(w), e).M.evals >= 1
    /\ \A m \in BatchMessages :
          batch_processed(Both, m.sync_type, m.result, m.backfill, m.c, m.e).M.evals >= 1

\* C26, amended: a BatchProcessed message is followed by exactly one
\* update_sync_state when it is for a range batch, or for a backfill batch
\* to which the backfill sync answers SyncCompleted or an error; a backfill
\* batch answered Successful, a parent chain segment and every
\* BlockProcessed message leave the manager's state as it was, with no
\* call of update_sync_state.
C26_ReevaluatesAfterSyncBatches ==
    /\ \A w \in BlockWork, result \in BlockResults, e \in RunEnvs :
          block_processed(Both, w.ptype, result, WorkType(w), e).M = Manager
    /\ \A m \in BatchMessages :
          Bind(batch_processed(Both, m.sync_type, m.result, m.backfill, m.c, m.e), LAMBDA R :
              IF \/ m.sync_type = RangeBatchId
                 \/ m.sync_type = BackSyncBatchId /\ m.backfill # "Successful"
              THEN R.M.evals = 1 /\ R.S = Cur
              ELSE R.M = Manager)

\* The result of a block the lookups had submitted was handled and changed
\* them.
C26_Witness == handled.msg = "BlockProcessed" /\ handled.started

\* A single lookup of T is for the block root.
Searched(T, root) == \E j \in DOMAIN T.sbl : T.sbl[j].req.requested_block_root = root
\* T still holds the parent lookup pl, with the blocks it has downloaded.
ChainIntact(T, pl) ==
    \E j \in DOMAIN T.pl : /\ T.pl[j].chain_hash = pl.chain_hash
                           /\ T.pl[j].downloaded_blocks = pl.downloaded_blocks

\* C27: a MissingComponents result discards no progress: after
\* single_block_processed the single lookup is still in single_block_lookups,
\* after parent_block_processed the parent lookup is still in parent_lookups
\* with the blocks of its chain, and in both cases a lookup searches for the
\* block whose components are missing.
C27_MissingComponentsKeepsLookup ==
    \A rt \in ResponseTypes, e \in RunEnvs :
        /\ \A i \in DOMAIN single_block_lookups :
              Bind(single_block_lookups[i], LAMBDA ent :
                  /\ processed_id(ent) # None
                  /\ processing_peer(ent.req, rt) # None
                  => Bind(single_block_processed(Cur, processed_id(ent),
                                                 "MissingComponents", rt, e), LAMBDA T :
                         Searched(T, ent.req.requested_block_root)))
        /\ \A i \in DOMAIN parent_lookups :
              Bind(parent_lookups[i], LAMBDA pl :
                  processing_peer(pl.current_parent_request, rt) # None
                  => Bind(parent_block_processed(Cur, pl.chain_hash,
                                                 "MissingComponents", rt, e), LAMBDA T :
                         /\ ChainIntact(T, pl)
                         /\ Searched(T, pl.current_parent_request.requested_block_root)))

\* ---- further properties of the RPC behaviour ---------------------------
PendingTo(ev, peer) == ev.t = "SendRequest" /\ ev.peer = peer
\* The queue q holds the events of the current queue at their positions, the
\* pending requests to the peer replaced by Disconnected errors with their
\* request id and protocol.
ReplacedInPlace(q, peer) ==
    \A i \in DOMAIN events :
        q[i] = IF PendingTo(events[i], peer)
               THEN [t |-> "Disconnected", peer |-> peer, id |-> events[i].id, rid |-> 0,
                     proto |-> events[i].proto]
               ELSE events[i]
HeldFor(peer) == self_peer_disconnected(outbound_request_limiter, peer)

\* C28 as stated: when the last connection to a peer closes, its pending
\* requests in the queue are replaced in place by Disconnected errors and
\* the length of the queue is unchanged; when connections remain, the queue
\* and the self limiter are unchanged.
C28_AsStated ==
    \A peer \in OutPeers :
        /\ Bind(on_swarm_event(Behaviour, peer, 0), LAMBDA T :
              /\ Len(T.ev) = Len(events)
              /\ ReplacedInPlace(T.ev, peer))
        /\ \A remaining \in 1..MaxConns :
              Bind(on_swarm_event(Behaviour, peer, remaining), LAMBDA T :
                  T.ev = events /\ T.sl = outbound_request_limiter)

\* C28, amended: when the last connection to a peer closes, the events
\* already queued keep their positions, the pending requests to the peer
\* replaced by Disconnected errors with the same request id and protocol
\* and every other event unchanged; the queue grows only by one
\* Disconnected error for each request the self limiter held for the peer,
\* in the limiter's order, after the events already queued.  When
\* connections remain, the behaviour is unchanged.
C28_ClosedRequestsReplacedInPlace ==
    \A peer \in OutPeers :
        /\ Bind(on_swarm_event(Behaviour, peer, 0), LAMBDA T :
              /\ Len(T.ev) = Len(events)
                    + (IF outbound_request_limiter.on THEN Len(HeldFor(peer)) ELSE 0)
              /\ ReplacedInPlace(T.ev, peer)
              /\ \A j \in (Len(events) + 1)..Len(T.ev) :
                    /\ T.ev[j].t = "Disconnected" /\ T.ev[j].peer = peer
                    /\ T.ev[j].id = HeldFor(peer)[j - Len(events)].id
                    /\ T.ev[j].proto = HeldFor(peer)[j - Len(events)].proto)
        /\ \A remaining \in 1..MaxConns :
              on_swarm_event(Behaviour, peer, remaining) = Behaviour

\* The last connection to a peer closed: a request that waited in the queue
\* was replaced where it stood, before a goodbye to the same peer, and a
\* request the self limiter held was reported behind them.
C28_Witness ==
    \E i, j, k \in DOMAIN events :
        /\ i < j /\ j < k
        /\ events[i].t = "Disconnected" /\ ~requests[events[i].id].limited
        /\ events[j].t = "Shutdown" /\ events[j].peer = events[i].peer
        /\ events[k].t = "Disconnected" /\ requests[events[k].id].limited

\* ---- wire failures of blob requests -------------------------------------
\* The id is the blob request of the i-th single lookup and of no other
\* request.
BlobRequestOf(i, id) ==
    /\ id # None
    /\ single_block_lookups[i].blob_id = id
    /\ \A j \in DOMAIN single_block_lookups :
          /\ single_block_lookups[j].block_id # id
          /\ j # i => single_block_lookups[j].blob_id # id

\* C29: a wire failure for the id of a lookup's blob request is handled as a
\* blob failure: the blob request state counts the failed attempt, a request
\* that is re-issued is a blobs request whose id becomes the lookup's blob
\* request id, and the block request state and id are unchanged.
C29_BlobFailureRetriesBlobs ==
    \A i \in DOMAIN single_block_lookups, peer \in Peers, e \in {x \in Envs : x.net} :
        Bind(single_block_lookups[i], LAMBDA ent :
            BlobRequestOf(i, ent.blob_id) =>
                Bind(single_block_lookup_failed(Cur, ent.blob_id, peer, e), LAMBDA T :
                    /\ \A k \in DOMAIN T.req : T.req[k].kind = "blobs"
                    /\ Len(T.sbl) = Len(single_block_lookups) =>
                          /\ T.sbl[i].block_id = ent.block_id
                          /\ T.sbl[i].req.block_request_state = ent.req.block_request_state
                          /\ T.sbl[i].req.blob_request_state.failed_downloading
                                = ent.req.blob_request_state.failed_downloading + 1
                          /\ T.req # <<>> => T.sbl[i].blob_id = T.req[1].id))

\* C30: a wire failure for an id that is the pending blob request of a
\* parent lookup, and the pending block request of none, is not ignored: the
\* lookup counts a failed blob download and its blob request is retried, or
\* the lookup is given up.
C30_ParentBlobFailureHandled ==
    \A id \in IssuedIds, peer \in Peers, e \in {x \in Envs : x.net} :
        (/\ parent_position(id, "Blob") # 0
         /\ parent_position(id, "Block") = 0)
        => Bind(parent_lookup_failed(Cur, id, peer, e), LAMBDA T :
              \/ Len(T.pl) < Len(parent_lookups)
              \/ \E j \in DOMAIN T.pl :
                    /\ T.pl[j].chain_hash
                          = parent_lookups[parent_position(id, "Blob")].chain_hash
                    /\ T.pl[j].current_parent_request.blob_request_state.failed_downloading
                          > parent_lookups[parent_position(id, "Blob")]
                                .current_parent_request.blob_request_state.failed_downloading)

\* ---- routing of processing results --------------------------------------
\* The work item was submitted by the i-th single lookup: it carries one of
\* that lookup's request ids, and the lookup has a peer to answer for it.
SubmittedBy(w, i) ==
    /\ w.ptype.t = "SingleBlock"
    /\ \/ single_block_lookups[i].block_id = w.ptype.id
       \/ single_block_lookups[i].blob_id = w.ptype.id
    /\ processing_peer(single_block_lookups[i].req, WorkType(w)) # None

\* C31: a processing result finds the single lookup that submitted the work
\* under either of its request ids: an Imported verdict removes that lookup.
C31_ResultFindsSubmitter ==
    \A w \in pending_work, i \in DOMAIN single_block_lookups :
        SubmittedBy(w, i) =>
            single_block_processed(Cur, w.ptype.id, "Imported", WorkType(w), QuietEnv).sbl
                = RemoveAt(single_block_lookups, i)

\* ---- ParentUnknown for a single lookup ----------------------------------
\* The i-th single lookup answers for the work item w, and neither its root
\* nor the root's parent is in a failed chain or covered by a parent lookup.
PromotableBy(w, i) ==
    Bind(single_block_lookups[i], LAMBDA ent :
        /\ w.ptype.t = "SingleBlock"
        /\ FirstIndex(single_block_lookups, LAMBDA x : processed_id(x) = w.ptype.id) = i
        /\ processing_peer(ent.req, WorkType(w)) # None
        /\ ent.req.requested_block_root \notin failed_chains
        /\ ParentOf(ent.req.requested_block_root) \notin failed_chains
        /\ \A j \in DOMAIN parent_lookups :
              /\ ~contains_block(parent_lookups[j], ent.req.requested_block_root)
              /\ ~pl_requests(parent_lookups[j], ent.req.requested_block_root))

\* The chain being processed holds neither the root nor its parent.
NotInProcessing(root) ==
    \A x \in processing_parent_lookups : \A j \in DOMAIN x.hashes :
        x.hashes[j] # root /\ x.hashes[j] # ParentOf(root)

\* After the handler a parent lookup of chain `root` requests the root's
\* parent, and the single lookup for the root is still tracked.
Promoted(T, root) ==
    /\ \E j \in DOMAIN T.pl :
          /\ T.pl[j].chain_hash = root
          /\ pl_requests(T.pl[j], ParentOf(root))
    /\ \E k \in DOMAIN T.sbl : T.sbl[k].req.requested_block_root = root

\* A block response for a single lookup whose root is the chain hash of a
\* parent lookup submits nothing for processing and keeps the lookup.
HeldBack ==
    \A id \in IssuedIds, block \in ResponseData, e \in Envs :
        Bind(single_position(id, "Block"), LAMBDA idx :
            (/\ idx # 0
             /\ \E j \in DOMAIN parent_lookups :
                   parent_lookups[j].chain_hash
                       = single_block_lookups[idx].req.requested_block_root)
            => \A peer \in SinglePeers(id, "Block") :
                  Bind(single_block_lookup_response(Cur, id, peer, block, e), LAMBDA T :
                      /\ T.work = <<>>
                      /\ block = "Good" /\ Len(T.sbl) = Len(single_block_lookups)
                            /\ T.req = <<>>
                         => T.sbl[idx].req.downloaded_block))

LowReports(T) == SelectSeq(T.rep, LAMBDA x : x.action = "LowToleranceError")

\* What handle_response is to leave behind when the request r for the i-th
\* parent lookup, made for response type rt, ended with r.err.
Dropped(T, i, r, rt) ==
    Bind(parent_lookups[i].chain_hash, LAMBDA chain_hash :
        /\ T.pl = RemoveAt(parent_lookups, i)
        /\ T.req = r.S.req
        /\ CASE r.err = "TooManyAttempts" ->
                   /\ T.fc = failed_chains
                               \cup (IF r.cannot_process THEN {chain_hash} ELSE {})
                   /\ Len(LowReports(T)) = Cardinality(used_peers(r.pl, rt))
                   /\ {x.peer : x \in Range(LowReports(T))} = used_peers(r.pl, rt)
             [] r.err = "ChainTooLong" ->
                   /\ T.fc = failed_chains \cup {chain_hash}
                   /\ Len(LowReports(T)) = Cardinality(used_peers(r.pl, rt))
                   /\ {x.peer : x \in Range(LowReports(T))} = used_peers(r.pl, rt)
             [] OTHER ->
                   /\ T.fc = failed_chains
                   /\ LowReports(T) = <<>>)

\* The block request, then the blob request if the block request was made.
BlockThenBlobs(S, pl, e) ==
    Bind(pl_request_parent_block(S, pl, e), LAMBDA b :
        IF b.err = "Ok" THEN pl_request_parent_blobs(b.S, b.pl, e) ELSE b)

\* The response type handle_response is told of: that of the request that
\* ended the attempt.
RequestedType(S, pl, e) ==
    IF pl_request_parent_block(S, pl, e).err = "Ok" THEN "Blob" ELSE "Block"

\* C33: when the request for a parent cannot be made, after a failed
\* download, a failed processing or an unknown parent, TooManyAttempts puts
\* the chain hash into the failed chains exactly when cannot_process,
\* ChainTooLong always does, both report each used peer of the response type
\* with LowToleranceError and the lookup is gone; SendFailed and NoPeers
\* drop the lookup, leave the failed chains alone and report no peer.
C33_RequestErrorsHandled ==
    /\ \A id \in IssuedIds, e \in Envs :
          Bind(parent_position(id, "Block"), LAMBDA i :
              i # 0 =>
                  Bind(pl_request_parent_block(
                           Cur, block_download_failed(parent_lookups[i]), e), LAMBDA r :
                      r.err # "Ok" =>
                          \A peer \in ParentPeers(id, "Block") :
                              Dropped(parent_lookup_failed(Cur, id, peer, e), i, r, "Block")))
    /\ \A i \in DOMAIN parent_lookups, e \in Envs :
          ParentProcessing(i, "Block") =>
              Bind(parent_lookups[i], LAMBDA pl :
                  /\ Bind(pl_request_parent_block(Cur, block_processing_failed(pl), e),
                          LAMBDA r :
                              r.err # "Ok" =>
                                  Dropped(parent_block_processed(Cur, pl.chain_hash, "Other",
                                                                 "Block", e),
                                          i, r, "Block"))
                  /\ Bind(BlockThenBlobs(Cur, add_block_wrapper(pl), e), LAMBDA r :
                          r.err # "Ok" =>
                              Dropped(parent_block_processed(Cur, pl.chain_hash,
                                                             "ParentUnknown", "Block", e),
                                      i, r, RequestedType(Cur, add_block_wrapper(pl), e))))

\* A chain failed for good after the third event: its one parent could not
\* be processed and the request for it was not made again.
C33_Witness ==
    /\ events_left = MaxEvents - 3
    /\ failed_chains # {}
    /\ parent_lookups = <<>>
    /\ next_id = 2

\* ---- verification errors of parent responses ----------------------------
ParentResponse(S, rt, id, peer, data, e) ==
    IF rt = "Block" THEN parent_lookup_response(S, id, peer, data, e)
                    ELSE parent_lookup_blob_response(S, id, peer, data, e)

RequestKind(rt) == IF rt = "Block" THEN "parent_block" ELSE "parent_blobs"

RequestIdOf(pl, rt) ==
    IF rt = "Block" THEN pl.current_parent_request_id
                    ELSE pl.current_parent_blob_request_id

\* The lookup pl is last in T.pl behind the others, with a new request of
\* the type in flight and attempts left.
RetriedBounded(T, pos, pl, rt) ==
    /\ Len(T.pl) = Len(parent_lookups)
    /\ SubSeq(T.pl, 1, Len(T.pl) - 1) = RemoveAt(parent_lookups, pos)
    /\ Len(T.req) = 1
    /\ Bind(T.pl[Len(T.pl)], LAMBDA new :
          /\ new.chain_hash = pl.chain_hash
          /\ T.req[1].kind = RequestKind(rt)
          /\ T.req[1].root = pl.current_parent_request.requested_block_root
          /\ RequestIdOf(new, rt) = T.req[1].id
          /\ StateOf(new.current_parent_request, rt).failed_downloading
                = StateOf(pl.current_parent_request, rt).failed_downloading + 1
          /\ failed_attempts(StateOf(new.current_parent_request, rt))
                < PARENT_FAIL_TOLERANCE)

\* The lookup is back with nothing requested: the block is already held, or
\* no blob is missing any more.
NothingMissing(T, pos, pl, rt, e) ==
    /\ IF rt = "Block" THEN pl.current_parent_request.downloaded_block
                        ELSE e.da # "missing"
    /\ SubSeq(T.pl, 1, Len(T.pl) - 1) = RemoveAt(parent_lookups, pos)
    /\ Len(T.pl) = Len(parent_lookups)
    /\ T.pl[Len(T.pl)].chain_hash = pl.chain_hash
    /\ T.req = <<>>

GivenUp(T, pos) ==
    /\ T.pl = RemoveAt(parent_lookups, pos)
    /\ T.req = <<>>

SingleResponse(S, rt, id, peer, data, e) ==
    IF rt = "Block" THEN single_block_lookup_response(S, id, peer, data, e)
                    ELSE single_blob_lookup_response(S, id, peer, data, e)

SingleVerify(l, rt, data) ==
    IF rt = "Block" THEN verify_block(l, data) ELSE verify_blob(l, data)

SingleIdOf(ent, rt) == IF rt = "Block" THEN ent.block_id ELSE ent.blob_id

\* The idx-th lookup is kept and one request of the type went out for it,
\* whose id the lookup holds.
SingleAskedAgain(T, idx, rt) ==
    /\ Len(T.sbl) = Len(single_block_lookups)
    /\ Len(T.req) = 1
    /\ T.req[1].kind = (IF rt = "Block" THEN "block" ELSE "blobs")
    /\ T.req[1].root = single_block_lookups[idx].req.requested_block_root
    /\ SingleIdOf(T.sbl[idx], rt) = T.req[1].id
    /\ StateOf(T.sbl[idx].req, rt).state = "Downloading"
    /\ StateOf(T.sbl[idx].req, rt).peer = T.req[1].peer

SingleGone(T, idx) ==
    /\ T.sbl = RemoveAt(single_block_lookups, idx)
    /\ T.req = <<>>

\* C35 as stated: the peer is reported once, then the request goes to a peer
\* not yet used if the failed attempts allow, otherwise the lookup is
\* removed with nothing requested.
C35_AsStated ==
    \A rt \in ResponseTypes, id \in IssuedIds :
        Bind(single_position(id, rt), LAMBDA idx :
            idx # 0 =>
            \A data \in ResponseData, e \in {x \in Envs : x.net},
               peer \in SinglePeers(id, rt) :
                Bind(single_block_lookups[idx], LAMBDA ent :
                    SingleVerify(ent.req, rt, data).tag = "Err" =>
                    Bind(SingleResponse(Cur, rt, id, peer, data, e), LAMBDA T :
                        /\ T.rep = <<[peer |-> peer, action |-> "LowToleranceError"]>>
                        /\ IF failed_attempts(StateOf(ent.req, rt)) + 1
                                < SINGLE_BLOCK_LOOKUP_MAX_ATTEMPTS
                           THEN /\ SingleAskedAgain(T, idx, rt)
                                /\ T.req[1].peer \notin StateOf(ent.req, rt).used_peers
                           ELSE SingleGone(T, idx))))

\* C35: the peer is reported once.  Then, if the object is already held or
\* no longer missing, nothing is requested and the lookup stays; else, if
\* the failed attempts allow, a peer is known and the network takes the
\* request, it goes to a peer not yet used when the lookup knows one and to
\* a used one when it does not; otherwise the lookup is removed with nothing
\* requested.
C35_VerifyErrorRetriesOrDrops ==
    \A rt \in ResponseTypes, id \in IssuedIds :
        Bind(single_position(id, rt), LAMBDA idx :
            idx # 0 =>
            \A data \in ResponseData, e \in Envs, peer \in SinglePeers(id, rt) :
                Bind(single_block_lookups[idx], LAMBDA ent :
                Bind(StateOf(ent.req, rt), LAMBDA rs :
                    SingleVerify(ent.req, rt, data).tag = "Err" =>
                    Bind(SingleResponse(Cur, rt, id, peer, data, e), LAMBDA T :
                        /\ T.rep = <<[peer |-> peer, action |-> "LowToleranceError"]>>
                        /\ T.work = <<>>
                        /\ CASE (IF rt = "Block" THEN ent.req.downloaded_block
                                                 ELSE e.da # "missing") ->
                                    /\ Len(T.sbl) = Len(single_block_lookups)
                                    /\ T.req = <<>>
                             [] OTHER ->
                                    IF /\ failed_attempts(rs) + 1
                                             < SINGLE_BLOCK_LOOKUP_MAX_ATTEMPTS
                                       /\ rs.available_peers # {}
                                       /\ e.net
                                    THEN /\ SingleAskedAgain(T, idx, rt)
                                         /\ T.req[1].peer \in rs.available_peers
                                         /\ rs.available_peers \ rs.used_peers # {}
                                               => T.req[1].peer \notin rs.used_peers
                                    ELSE SingleGone(T, idx)))))

\* A lookup that knows two peers has one failed download behind it and is
\* downloading the block again, both peers used.
C35_Witness ==
    \E i \in DOMAIN single_block_lookups :
        Bind(single_block_lookups[i].req.block_request_state, LAMBDA rs :
            /\ single_block_lookups[i].block_id # None
            /\ rs.state = "Downloading"
            /\ rs.failed_downloading = 1
            /\ rs.used_peers = Peers)

C37_BackfillOnlyWhenRangeIdle ==
    \A c \in ChainEnvs :
        Bind(update_sync_state(Manager, c), LAMBDA M :
            Bind([start |-> \E k \in DOMAIN M.backfill : M.backfill[k] = "start",
                  pause |-> \E k \in DOMAIN M.backfill : M.backfill[k] = "pause"],
                 LAMBDA calls :
                /\ ~(calls.start /\ calls.pause)
                /\ c.range = "Finalized" =>
                      M.backfill = <<"pause">> /\ M.state = "SyncingFinalized"
                /\ c.range = "Head" =>
                      M.backfill = <<"pause">> /\ M.state = "SyncingHead"
                /\ calls.start =>
                      /\ c.range = "Idle"
                      /\ M.backfill = <<"start">>
                      /\ M.state = (IF c.backfill = "Syncing" THEN "BackFillSyncing"
                                                               ELSE "Synced")
                /\ (c.range # "Err" /\ M.state \in {"Synced", "BackFillSyncing"})
                      => calls.start
                /\ c.range = "Err" => M.backfill = <<>> /\ M.state = sync_state))

\* The node backfills: range sync was idle and the backfill said it syncs.
C37_Witness ==
    /\ sync_state = "BackFillSyncing"
    /\ \E p \in Peers : peer_db[p].connected /\ peer_db[p].status = "Advanced"

\* ---- entries no event can reach -----------------------------------------
\* C38: every entry of single_block_lookups holds the id of a block or of a
\* blob request, or work submitted for its root awaits its result.
C38_EveryEntryReachable ==
    \A i \in DOMAIN single_block_lookups :
        \/ single_block_lookups[i].block_id # None
        \/ single_block_lookups[i].blob_id # None
        \/ \E w \in pending_work :
              /\ w.ptype.t = "SingleBlock"
              /\ w.root = single_block_lookups[i].req.requested_block_root

\* ---- C39 ------------------------------------------------------------
\* Two responses given to send_response for one substream of one peer.
SameSubstream(a, b) ==
    /\ responses[a].peer = responses[b].peer
    /\ responses[a].id = responses[b].id

\* C39: responses given to send_response for the same peer and substream
\* reach the handler in the order of the calls: when a later response has
\* been emitted, every earlier one of that substream was emitted before it,
\* also when the limiter had put the earlier one into the delay queue.
C39_SubstreamOrderKept ==
    \A a, b \in DOMAIN responses :
        (a < b /\ SameSubstream(a, b) /\ responses[b].sent_no > 0)
        => /\ responses[a].sent_no > 0
           /\ responses[a].sent_no < responses[b].sent_no

\* ---- C40 ------------------------------------------------------------
\* The bucket of a response given to send_response.
BucketOf(B, rid) == B.tok[<<responses[rid].peer, responses[rid].proto>>]

\* C40: a deferred response waits a positive time; when poll emits it the
\* bucket of its peer and protocol holds at least its cost and the
\* emission takes the cost from the bucket; no bucket is ever negative.
C40_DeferralSufficientAndCharged ==
    /\ \A rid \in DOMAIN responses :
          responses[rid].deferred => responses[rid].due > responses[rid].at
    /\ \A k \in DOMAIN response_tokens : response_tokens[k] >= 0
    /\ \A pick \in poll_expired(delayed_responses, now) :
          /\ BucketOf(Behaviour, pick.rid) >= responses[pick.rid].cost
          /\ BucketOf(poll(Behaviour, now, pick), pick.rid)
                = BucketOf(Behaviour, pick.rid) - responses[pick.rid].cost

====
